---- MODULE Spec2Model ----
\* Verification model of the powercalc group aggregation engine
\* (custom_components/powercalc/sensors/group.py): GroupedPowerSensor,
\* GroupedEnergySensor and the PreviousStateStore, and of the profile library
\* (custom_components/powercalc/power_profile): ProfileLibrary, LocalLoader
\* and RemoteLoader, of the sensor platform (sensor.py) and of the fixed and
\* composite calculation strategies (strategy/fixed.py, strategy/composite.py).
\*
\* Numbers are fixed-point: an integer n stands for n / 1000 of the unit it is
\* expressed in (three decimals), so rounding to two digits is observable.
EXTENDS Integers, Sequences, FiniteSets, TLC

\* ---------------------------------------------------------------------------
\* Bounds of the model
\* ---------------------------------------------------------------------------
\* state_changed events that may be queued for one group sensor
MaxPending == 2
\* member readings stop changing once an energy group's total reaches this value
MaxTotal == 30
\* reset service calls that may be in flight for one member
MaxResetTasks == 1
\* loader queries get_model_listing may make for one cache key
MaxListingQueries == 2
\* load_model calls made for one model of the manifest
MaxLoadCalls == 3
\* power sensors that may be created for one source entity
MaxCreated == 2

\* ---------------------------------------------------------------------------
\* Configuration: one power group, one energy group and a parent energy group
\* ---------------------------------------------------------------------------
PowerGroup == "sensor.group_power"
EnergyGroup == "sensor.group_energy"
Groups == {PowerGroup, EnergyGroup}
\* a group that has EnergyGroup as its sub-group: resolving its entities gives
\* the entities of the sub-group
ParentGroup == "sensor.parent_energy"
EnergyGroups == {EnergyGroup, ParentGroup}
GroupSensors == Groups \cup {ParentGroup}

\* GroupedSensor._entities, in iteration order
GroupEntities(g) ==
    IF g = PowerGroup THEN <<"p1", "p2", "p3">> ELSE <<"e1", "e2">>

Range(s) == {s[i] : i \in 1..Len(s)}
Entities == UNION {Range(GroupEntities(g)) : g \in Groups}

isinstance_GroupedEnergySensor(g) == g \in EnergyGroups

\* _attr_native_unit_of_measurement: POWER_WATT for the power group; the energy
\* group is configured with UnitPrefix.NONE (ENERGY_WATT_HOUR)
native_unit_of_measurement(g) ==
    IF isinstance_GroupedEnergySensor(g) THEN "Wh" ELSE "W"

\* rounding_digits = 2 (default of GroupedSensor.__init__): with three decimals
\* kept, rounding to two digits is rounding to a multiple of RoundQuantum
RoundQuantum == 10

\* ---------------------------------------------------------------------------
\* homeassistant.core.State snapshots
\* ---------------------------------------------------------------------------
STATE_UNKNOWN == "unknown"
STATE_UNAVAILABLE == "unavailable"

\* hass.states.get / dict.get returning None
None == [state |-> "none", val |-> 0, unit |-> ""]
Unknown(u) == [state |-> STATE_UNKNOWN, val |-> 0, unit |-> u]
Unavailable(u) == [state |-> STATE_UNAVAILABLE, val |-> 0, unit |-> u]
Num(v, u) == [state |-> "num", val |-> v, unit |-> u]
\* State(entity_id, "0.00") written by async_reset: no attributes, so no unit
ZeroState == Num(0, "")

\* unit each member sensor reports in (ATTR_UNIT_OF_MEASUREMENT)
UnitOf(e) ==
    CASE e = "p3" -> "kW"
      [] e = "e2" -> "kWh"
      [] e \in {"e1"} -> "Wh"
      [] OTHER -> "W"

\* numeric readings the member sensors take (thousandths of the member's unit)
ValsOf(e) ==
    CASE e = "e1" -> {4, 16}
      [] e = "e2" -> {0, 1}
      [] OTHER -> {5, 10}

Readings(e) ==
    {None, Unknown(UnitOf(e)), Unavailable(UnitOf(e))}
        \cup {Num(v, UnitOf(e)) : v \in ValsOf(e)}

\* ---------------------------------------------------------------------------
\* The sensor's own value (_attr_native_value / self.state)
\* ---------------------------------------------------------------------------
\* kind "none": None; "num": a Decimal or int; "str": a numeric string restored
\* from the last state; "bad": a restored non-numeric string (unknown/unavailable)
NoValue == [kind |-> "none", val |-> 0]
NumValue(n) == [kind |-> "num", val |-> n]
StrValue(n) == [kind |-> "str", val |-> n]
BadValue == [kind |-> "bad", val |-> 0]

\* what async_get_last_state may hand back (NoValue: no last state)
RestoredValues == {NoValue, StrValue(0), StrValue(10), BadValue}

\* variant: "is not None" instead of truthiness
Truthy_not_none(v) == v.kind # "none"

\* Python truthiness of self.state
Truthy(v) == v.kind \in {"str", "bad"} \/ (v.kind = "num" /\ v.val # 0)

VARIABLES
    hass_state,     \* CoreState of the host
    states,         \* hass.states: entity id -> State or None
    added,          \* group -> async_added_to_hass has completed
    pending,        \* group -> queued state_changed callbacks
    native_value,   \* group -> _attr_native_value
    available,      \* group -> _attr_available
    store,          \* PreviousStateStore.states: entity id -> State or None
    reset_tasks,    \* entity id -> reset_energy service calls in flight
    last,           \* the handler that ran last and what it started from
    got,            \* what the last get_entity_state call returned
    written,        \* entity id -> the state last passed to set_entity_state
    \* the life of the PreviousStateStore in the host process
    disk,           \* the persisted document of Store(STORAGE_KEY)
    slot,           \* hass.data["powercalc_group_storage"]
    caller,         \* group -> position of its async_get_instance call
    returned,       \* group -> id of the instance the call returned (0: none)
    instances,      \* PreviousStateStore objects constructed in this process
    loads,          \* store.async_load calls made in this process
    timers,         \* interval timers registered and not cancelled
    stop_listeners, \* EVENT_HOMEASSISTANT_STOP listeners registered
    cancels,        \* calls of cancel_interval
    stopped,        \* EVENT_HOMEASSISTANT_STOP has been fired
    flushes,        \* stop handlers past cancel_interval, awaiting the flush
    saved,          \* entity id -> the state last set before the last save
    \* the profile library of the host process
    lib_state,      \* "absent", "ready" or "failed": ProfileLibrary.factory
    config,         \* the data directory and manifest the loaders read
    index,          \* LocalLoader._manufacturer_model_listing
    manufacturer_models,    \* RemoteLoader.manufacturer_models
    storage,        \* profile directories present under powercalc_profiles
    _manufacturer_models,   \* ProfileLibrary._manufacturer_models
    listing_queries,        \* cache key -> loader get_model_listing calls
    call,           \* the library call made last and what it returned
    factory_caller, \* caller -> position of its ProfileLibrary.factory call
    factory_library,        \* caller -> id of the library its call holds
    libraries,      \* ProfileLibrary objects constructed in this process
    initializations,        \* library.initialize calls started
    lib_slot,       \* hass.data[DOMAIN][DATA_PROFILE_LIBRARY] (0: missing)
    library_contents,       \* RemoteLoader.library_contents
    response,       \* what the manifest endpoint answered to load_library_json
    logged,         \* log level -> records load_library_json logged last
    load_calls,     \* model of the manifest -> load_model calls made for it
    downloads,      \* model of the manifest -> _download_profile calls
    first_loaded,   \* model of the manifest -> what load_model returned first
    \* the sensor platform and the calculation strategies
    configured_entities,    \* hass.data[DOMAIN][DATA_CONFIGURED_ENTITIES]
    added_entities, \* the sensors the last setup passed to async_add_entities
    setup,          \* the platform set up last and what create_sensors gave
    calc,           \* the strategy calculated last, the state and the result
    \* the standby aggregator
    standby_sensors,        \* hass.data[DOMAIN][DATA_STANDBY_POWER_SENSORS]
    standby_value,  \* StandbyPowerSensor._attr_native_value
    recalculated,   \* the registry the last _recalculate call found
    \* bookkeeping of the properties of groups that are accounted for
    account,        \* group -> the total and the member readings it counted
    \* create_individual_sensors called by several setups
    individual,     \* caller -> position and result of its call
    discovered_entities,    \* hass.data[DOMAIN][DATA_DISCOVERED_ENTITIES]
    sensors_created,        \* source entity -> power sensors created for it
    \* hass.config_entries of the integration
    config_entries, \* entry id -> the data of the config entry
    entry_call      \* the last call made on the config entries and its result

sensorVars == <<hass_state, states, added, pending, native_value, available,
                reset_tasks>>
lifeVars == <<disk, slot, caller, returned, instances, loads, timers,
              stop_listeners, cancels, stopped, flushes, saved>>
factoryVars == <<factory_caller, factory_library, libraries, initializations,
                 lib_slot>>
remoteVars == <<library_contents, response, logged, load_calls, downloads,
                first_loaded>>
libVars == <<lib_state, config, index, manufacturer_models, storage,
             _manufacturer_models, listing_queries, call, factoryVars,
             remoteVars>>
platformVars == <<configured_entities, added_entities, setup>>
standbyVars == <<standby_sensors, standby_value, recalculated>>
individualVars == <<individual, discovered_entities, sensors_created>>
\* the variables of the standby aggregator, the bookkeeping and the setups
entryVars == <<config_entries, entry_call>>
extraVars == <<standbyVars, account, individualVars, entryVars>>
restVars == <<platformVars, calc, extraVars>>
\* what the group sensors' handlers never touch
otherVars == <<lifeVars, libVars, restVars>>

vars == <<hass_state, states, added, pending, native_value, available, store,
          reset_tasks, last, got, written, lifeVars, libVars, restVars>>

\* ---------------------------------------------------------------------------
\* The persisted document and the singleton slot
\* ---------------------------------------------------------------------------
\* an entity id without an entry in the document
NoJson == [entity_id |-> "", state |-> "", unit_of_measurement |-> ""]
\* Store.async_load returning None: nothing was ever saved
NoDocument == [exists |-> FALSE, data |-> [e \in Entities |-> NoJson]]

\* hass.data[data_key] of the singleton decorator: missing, an asyncio.Event
\* while the first call runs, then the instance
Absent == [kind |-> "absent", id |-> 0]
Event == [kind |-> "event", id |-> 0]
Instance(n) == [kind |-> "instance", id |-> n]

\* ---------------------------------------------------------------------------
\* Profile library: strings
\* ---------------------------------------------------------------------------
\* A string is a sequence of tokens. "/", "#slash#", "(" and ")" are tokens of
\* their own; every other token is a run of characters in a given letter case.
\* str.lower of one token
lower_token(t) ==
    CASE t = "LCT" -> "lct"
      [] t = "LED" -> "led"
      [] t = "LWB" -> "lwb"
      [] t = "PLUG" -> "plug"
      [] t = "Bulb " -> "bulb "
      [] t = "Signify" -> "signify"
      [] t = "Signify Netherlands B.V." -> "signify netherlands b.v."
      [] t = "IKEA of Sweden" -> "ikea of sweden"
      [] t = "Feibit Inc co.  " -> "feibit inc co.  "
      [] t = "LEDVANCE" -> "ledvance"
      [] t = "MLI" -> "mli"
      [] t = "OSRAM" -> "osram"
      [] OTHER -> t

\* str.lower()
lower(s) == [i \in 1..Len(s) |-> lower_token(s[i])]

\* str.replace("#slash#", "/")
replace_slash(s) == [i \in 1..Len(s) |-> IF s[i] = "#slash#" THEN "/" ELSE s[i]]

\* re.sub(r"^(.*)\(([^()]+)\)$", r"\2", model): the content of a trailing
\* parenthetical, or the string itself when the pattern does not match
parenthetical(s) ==
    LET n == Len(s)
        opens == {i \in 1..n : s[i] = "("}
    IN  IF n >= 3 /\ s[n] = ")" /\ opens # {}
        THEN LET i == CHOOSE k \in opens : \A j \in opens : j <= k
             IN  IF /\ i + 1 <= n - 1
                    /\ \A j \in (i + 1)..(n - 1) : s[j] \notin {"(", ")"}
                 THEN SubSeq(s, i + 1, n - 1)
                 ELSE s
        ELSE s

\* "/" in model
has_slash(s) == \E i \in 1..Len(s) : s[i] = "/"

\* model.split("/", 1): what stands before and after the first "/"
split(s) ==
    LET i == CHOOSE k \in 1..Len(s) :
                 s[k] = "/" /\ \A j \in 1..(k - 1) : s[j] # "/"
    IN  <<SubSeq(s, 1, i - 1), SubSeq(s, i + 1, Len(s))>>

\* the tokens in the order of their first characters' code points
TokenOrder == <<"(", ")", "/", "Bulb ", "LCT", "LED", "LWB", "PLUG", "ch", "op">>
token_rank(t) == CHOOSE i \in 1..Len(TokenOrder) : TokenOrder[i] = t

\* a < b for strings
RECURSIVE str_less(_, _)
str_less(a, b) ==
    IF b = <<>> THEN FALSE
    ELSE IF a = <<>> THEN TRUE
    ELSE IF a[1] # b[1] THEN token_rank(a[1]) < token_rank(b[1])
    ELSE str_less(Tail(a), Tail(b))

\* sorted(models)
RECURSIVE sorted(_)
sorted(models) ==
    IF models = {} THEN <<>>
    ELSE LET first == CHOOSE x \in models :
                          \A y \in models \ {x} : str_less(x, y)
         IN  <<first>> \o sorted(models \ {first})

\* the model ids and aliases that occur
LCT == <<"LCT">>
LED == <<"LED">>
LWB == <<"LWB">>
PLUG == <<"PLUG">>
BulbLCT == <<"Bulb ", "(", "LCT", ")">>
OpCh == <<"op", "/", "ch">>
OpChEscaped == <<"op", "#slash#", "ch">>
NoString == <<>>

\* MANUFACTURER_DIRECTORY_MAPPING
MANUFACTURER_DIRECTORY_MAPPING ==
    {<< <<"IKEA of Sweden">>, <<"ikea">> >>,
     << <<"Feibit Inc co.  ">>, <<"jiawen">> >>,
     << <<"LEDVANCE">>, <<"ledvance">> >>,
     << <<"MLI">>, <<"mueller-licht">> >>,
     << <<"OSRAM">>, <<"osram">> >>,
     << <<"Signify Netherlands B.V.">>, <<"signify">> >>}

\* ---------------------------------------------------------------------------
\* Profile library: what the loaders read
\* ---------------------------------------------------------------------------
\* model.json: id stands for the calibration payload
Json(id, aliases, device_type, default) ==
    [id |-> id, aliases |-> aliases, device_type |-> device_type,
     sub_profile_select |-> default]
NoJsonData == Json("", <<>>, "", NoString)

\* a model directory of the data tree
ModelDir(dir, has_json, json) == [dir |-> dir, has_json |-> has_json, json |-> json]

J_LCT == Json("lct.json", <<>>, "light", <<"day">>)
J_LED == Json("led.json", <<OpCh, BulbLCT>>, "light", NoString)
J_LED_clash == Json("led.json", <<<<"lct">>>>, "light", NoString)
J_PLUG == Json("plug.json", <<>>, "smart_switch", NoString)
J_CUSTOM == Json("custom.json", <<>>, "light", <<"day">>)

\* data trees in os.walk order: manufacturer directories and model directories
TreePlain ==
    << [name |-> <<"signify">>,
        models |-> <<ModelDir(LCT, TRUE, J_LCT), ModelDir(LED, TRUE, J_LED)>>] >>
TreeReversed ==
    << [name |-> <<"Signify">>,
        models |-> <<ModelDir(LED, TRUE, J_LED), ModelDir(LCT, TRUE, J_LCT)>>] >>
TreeSkipping ==
    << [name |-> <<"signify">>,
        models |-> <<ModelDir(<<".git">>, TRUE, J_PLUG),
                     ModelDir(<<"xyz">>, FALSE, NoJsonData),
                     ModelDir(LCT, TRUE, J_LCT)>>] >>
TreeClash ==
    << [name |-> <<"signify">>,
        models |-> <<ModelDir(LCT, TRUE, J_LCT),
                     ModelDir(LED, TRUE, J_LED_clash)>>] >>
TreeDouble ==
    << [name |-> <<"signify">>,
        models |-> <<ModelDir(LCT, TRUE, J_LCT),
                     ModelDir(<<"lct">>, TRUE, J_PLUG)>>] >>

\* library.json: manufacturers with their models
Manifest ==
    << [name |-> <<"signify">>,
        models |-> << [id |-> LWB, aliases |-> <<<<"lwb">>>>,
                       device_type |-> "light"] >>],
       [name |-> <<"shelly">>,
        models |-> << [id |-> PLUG, aliases |-> <<>>,
                       device_type |-> "smart_switch"] >>] >>

\* the copy of library.json bundled with the integration
BundledManifest ==
    << [name |-> <<"signify">>,
        models |-> << [id |-> LWB, aliases |-> <<>>,
                       device_type |-> "light"] >>] >>

\* a parsed JSON document: falsy ({} or null) or not, and its "manufacturers"
Contents(truthy, manufacturers) ==
    [truthy |-> truthy, manufacturers |-> manufacturers]
NoContents == Contents(FALSE, <<>>)

\* answers of the manifest endpoint: the status and what the body holds (the
\* manifest, another JSON document, a falsy JSON document, no JSON at all)
Response(status, body) == [status |-> status, body |-> body]
NoResponse == Response(0, "")
OkResponse == Response(200, "manifest")
Responses == {Response(status, body) : status \in {200, 404, 500},
                                       body \in {"manifest", "json", "null", "text"}}

\* the models of the manifest and the files a download of a profile may bring,
\* in the order the download endpoint lists them
RemoteModels == {<<<<"signify">>, LWB>>, <<<<"shelly">>, PLUG>>}
ResourceLists == {<<"model.json", "hs.csv.gz">>, <<"hs.csv.gz", "model.json">>}

\* what the download endpoint does to a _download_profile call: the status of
\* its listing, the resources it lists and the number of them that are
\* written before the connection breaks
Download(status, resources, fetched) ==
    [status |-> status, resources |-> resources, fetched |-> fetched]
DownloadAnswers ==
    {Download(status, resources, fetched) :
        status \in {200, 500}, resources \in ResourceLists, fetched \in 0..2}
\* the endpoint as the library calls see it: all files, or a refused listing
download_of(download_ok) ==
    Download(IF download_ok THEN 200 ELSE 500, <<"model.json", "hs.csv.gz">>, 2)

\* what a LocalLoader was constructed on: the tree, _is_custom_directory and
\* whether the data directory itself holds a model.json
LoaderConfig(tree, custom, has_json) ==
    [tree |-> tree, is_custom_directory |-> custom, has_json |-> has_json]
NoConfig == LoaderConfig(<<>>, FALSE, FALSE)
Configs ==
    {LoaderConfig(TreePlain, FALSE, FALSE),
     LoaderConfig(TreeReversed, FALSE, FALSE),
     LoaderConfig(TreeSkipping, FALSE, FALSE),
     LoaderConfig(TreeClash, FALSE, FALSE),
     LoaderConfig(TreeDouble, FALSE, FALSE),
     LoaderConfig(TreePlain, TRUE, FALSE),
     LoaderConfig(TreePlain, TRUE, TRUE)}

\* manufacturer keys of the loaders
ManufacturerKeys == {<<"signify">>, <<"shelly">>}
\* device types of DOMAIN_DEVICE_TYPE, "" for None
DeviceTypes == {"", "light", "smart_switch"}

\* arguments the library is called with
QueryManufacturers ==
    {<<"signify">>, <<"Signify Netherlands B.V.">>,
     <<"signify netherlands b.v.">>, <<"nobody">>}
QueryModels ==
    {LCT, <<"lct">>, LWB, BulbLCT, OpCh,
     <<"LCT", "/", "night">>, <<"LCT", "/">>, <<"xyz">>}
ListingManufacturers == {<<"signify">>, <<"shelly">>}
NoDirectory == NoString
CustomDirectories == {NoDirectory, <<"custom">>}
\* custom_directory and whether a download succeeds: no download is made
\* for a custom directory
QueryOptions ==
    {<<NoDirectory, TRUE>>, <<NoDirectory, FALSE>>, <<<<"custom">>, TRUE>>}
\* the data directories the library is queried on
LibraryConfigs ==
    {LoaderConfig(TreePlain, FALSE, FALSE),
     LoaderConfig(TreeReversed, FALSE, FALSE),
     LoaderConfig(TreeClash, FALSE, FALSE),
     LoaderConfig(TreePlain, TRUE, FALSE),
     LoaderConfig(TreePlain, TRUE, TRUE)}
EntityDomains == {"", "light", "switch"}
\* f"{manufacturer}/{device_type}"
CacheKeys == ListingManufacturers \X DeviceTypes

\* results of the loaders and of the library: a value, None or an exception
Value(v) == [kind |-> "value", value |-> v, error |-> ""]
Nothing == [kind |-> "none", value |-> <<>>, error |-> ""]
Raised(e) == [kind |-> "raised", value |-> <<>>, error |-> e]

\* the listing cache holds no entry for a key
NoListing == [cached |-> FALSE, models |-> <<>>]
Listing(models) == [cached |-> TRUE, models |-> models]

\* call: op and arguments of the library call made last, the model find_model
\* resolved, what load_model gave and what the call returned
NoCall ==
    [op |-> "none", manufacturer |-> NoString, model |-> NoString,
     custom_directory |-> NoDirectory, download_ok |-> TRUE,
     entity_domain |-> "", found |-> Nothing, loaded |-> Nothing,
     result |-> Nothing]

\* ---------------------------------------------------------------------------
\* The sensor platform: configurations and sensors
\* ---------------------------------------------------------------------------
\* the source entities a platform configuration may name, in this order
SourceEntities == <<"light.a", "light.b", "light.c">>

\* what create_power_sensor does for an entity: "" when it creates the sensor,
\* otherwise the exception it raises
PowerSensorErrors == {"", "StrategyConfigurationError", "KeyError"}

\* an entry of CONF_ENTITIES
SensorConfig(entity_id, error) == [entity_id |-> entity_id, error |-> error]

\* the entries of CONF_ENTITIES naming the entities of positions, in the
\* order of SourceEntities, errors giving what create_power_sensor does
RECURSIVE EntityConfigs(_, _, _)
EntityConfigs(positions, errors, i) ==
    IF i > Len(SourceEntities) THEN <<>>
    ELSE IF i \in positions
    THEN <<SensorConfig(SourceEntities[i], errors[i])>>
             \o EntityConfigs(positions, errors, i + 1)
    ELSE EntityConfigs(positions, errors, i + 1)

\* a platform configuration: CONF_ENTITIES, CONF_CREATE_ENERGY_SENSOR,
\* CONF_CREATE_GROUP ("" when missing) and whether CONF_INCLUDE names an area
\* that does not exist
PlatformConfig(entities, create_energy_sensor, create_group, area_missing) ==
    [entities |-> entities, create_energy_sensor |-> create_energy_sensor,
     create_group |-> create_group, area_missing |-> area_missing]
PlatformConfigs ==
    UNION {{PlatformConfig(EntityConfigs(positions, errors, 1), energy, group,
                           missing) :
               errors \in [positions -> PowerSensorErrors],
               energy \in BOOLEAN, group \in {"", "all"}, missing \in BOOLEAN} :
           positions \in SUBSET (1..Len(SourceEntities))}

\* a sensor entity: what it tracks and its kind
Sensor(source, kind) == [source |-> source, kind |-> kind]

\* setup: the configuration of the platform set up last, the configured
\* entities it started from and what create_sensors gave
NoSetup ==
    [op |-> "none", config |-> PlatformConfig(<<>>, FALSE, "", FALSE),
     before |-> {}, result |-> Nothing]

\* ---------------------------------------------------------------------------
\* The calculation strategies: configurations and states
\* ---------------------------------------------------------------------------
\* a state of the source entity: state is the raw state string as its parts
\* between "|", source the attribute "source" ("" when the state has none)
EntityState(state, source) == [state |-> state, source |-> source]
EntityStates ==
    {EntityState(state, source) :
        state \in {<<"playing">>, <<"idle">>, <<"source", "TV">>},
        source \in {"", "TV", "Radio"}}

\* an entry of states_power: the key as its parts between "|" and the power
StatePower(key, power) == [key |-> key, power |-> power]
\* states_power dictionaries in declaration order
StatesPowers ==
    {<<>>,
     <<StatePower(<<"playing">>, 8300), StatePower(<<"idle">>, 1500)>>,
     <<StatePower(<<"source", "TV">>, 5000),
       StatePower(<<"source", "Radio">>, 10000)>>,
     <<StatePower(<<"source", "TV">>, 5000), StatePower(<<"playing">>, 8300)>>,
     <<StatePower(<<"input", "None">>, 2000),
       StatePower(<<"source", "TV">>, 5000)>>,
     <<StatePower(<<"source", "TV">>, 5000),
       StatePower(<<"input", "None">>, 2000)>>,
     <<StatePower(<<"source", "a", "b">>, 7000),
       StatePower(<<"source", "TV">>, 5000)>>,
     <<StatePower(<<"source", "TV">>, 5000),
       StatePower(<<"source", "a", "b">>, 7000)>>}

\* FixedStrategy(source_entity, power, per_state_power): Nothing for None
Fixed(power, per_state_power) ==
    [power |-> power, per_state_power |-> per_state_power]
FixedStrategies ==
    {Fixed(power, per_state_power) :
        power \in {Nothing, Value(12000)},
        per_state_power \in {Nothing} \cup {Value(t) : t \in StatesPowers}}

\* SubStrategy(condition, strategy): condition "" for None
SubStrategy(condition, strategy) ==
    [condition |-> condition, strategy |-> strategy]
SubStrategies ==
    {SubStrategy(condition, strategy) :
        condition \in {"", "playing", "tv"},
        strategy \in {Fixed(Value(12000), Nothing),
                      Fixed(Nothing,
                            Value(<<StatePower(<<"playing">>, 8300),
                                    StatePower(<<"idle">>, 1500)>>))}}
\* the member lists of a composite strategy; the third member of a list is a
\* fallback without condition
CompositeStrategies ==
    {<<>>} \cup {<<a>> : a \in SubStrategies}
           \cup {<<a, b>> : a, b \in SubStrategies}
           \cup {<<a, b, c>> : a, b \in SubStrategies,
                               c \in {d \in SubStrategies : d.condition = ""}}

\* calc: the strategy calculated last, the state it was given, the result and
\* the members of a composite strategy whose calculate was called
NoCalc ==
    [op |-> "none", strategy |-> <<>>, entity_state |-> <<>>,
     result |-> Nothing, delegated |-> <<>>]

\* ---------------------------------------------------------------------------
\* Data of the standby aggregator
\* ---------------------------------------------------------------------------
\* the virtual power sensors that may be in standby, and the standby power
\* they register (thousandths of a watt)
StandbyIds == {"sensor.tv_power", "sensor.hub_power", "sensor.amp_power"}
StandbyPowers == {0, 5, 15}
\* the empty registry
NoSensors == [e \in {} |-> 0]
\* STATE_UNKNOWN assigned as the native value
UnknownValue == [kind |-> "unknown", val |-> 0]

\* ---------------------------------------------------------------------------
\* Data of the setups that call create_individual_sensors
\* ---------------------------------------------------------------------------
\* the YAML platform, a config entry and the discovery manager; only the
\* discovery manager passes discovery_info
IndividualCallers == {"yaml", "entry", "discovery"}
IndividualSources == {"light.a", "light.b"}
NoIndividual == [pc |-> "idle", source |-> "", result |-> Nothing]

\* config entries: virtual power sensors and groups
SensorEntryIds == {"s1", "s2"}
GroupEntryIds == {"g1", "g2"}
EntryIds == SensorEntryIds \cup GroupEntryIds
\* an entry id no entry has (any more)
MissingEntryId == "gone"
\* group "absent": CONF_GROUP is no key of the data; "none": its value is None
NoEntry ==
    [exists |-> FALSE, sensor_type |-> "", group |-> "absent",
     member_sensors |-> <<>>, sub_groups |-> <<>>]
SensorEntry(group) ==
    [exists |-> TRUE, sensor_type |-> "virtual_power", group |-> group,
     member_sensors |-> <<>>, sub_groups |-> <<>>]
GroupEntry(sub_groups) ==
    [exists |-> TRUE, sensor_type |-> "group", group |-> "absent",
     member_sensors |-> <<>>, sub_groups |-> sub_groups]
NoEntryCall == [op |-> "", entry |-> "", device_class |-> "", result |-> Nothing]
SensorDeviceClasses == {"power", "energy"}

\* the coroutines of the host that ask for the library
FactoryCallers == {"first", "second", "third"}

LibInit ==
    /\ lib_state = "absent"
    /\ config = NoConfig
    /\ index = [m \in ManufacturerKeys |-> <<>>]
    /\ manufacturer_models = [m \in ManufacturerKeys |-> <<>>]
    /\ storage = {}
    /\ _manufacturer_models = [k \in CacheKeys |-> NoListing]
    /\ listing_queries = [k \in CacheKeys |-> 0]
    /\ call = NoCall
    /\ factory_caller = [c \in FactoryCallers |-> "idle"]
    /\ factory_library = [c \in FactoryCallers |-> 0]
    /\ libraries = 0
    /\ initializations = 0
    /\ lib_slot = 0
    /\ library_contents = NoContents
    /\ response = NoResponse
    /\ logged = [error |-> 0, debug |-> 0]
    /\ load_calls = [k \in RemoteModels |-> 0]
    /\ downloads = [k \in RemoteModels |-> 0]
    /\ first_loaded = [k \in RemoteModels |-> Nothing]

\* account[g]: start is the total the first recomputation of g started from,
\* first[e] the first reading of member e that g counted and seen[e] the
\* latest one
NoAccount ==
    [start |-> Nothing, first |-> [e \in {"e1", "e2"} |-> Nothing],
     seen |-> [e \in {"e1", "e2"} |-> Nothing]]

\* last: op/g/e/outcome name the step; value and store are what the handler
\* started from; summed is what calculate_new_state returned and deltas the
\* delta it computed for each member; again: the same group's handler also ran
\* in the step before
NoOp == [op |-> "init", g |-> "", e |-> "", outcome |-> "",
         value |-> NoValue, store |-> [e \in Entities |-> None],
         summed |-> 0, deltas |-> [e \in Entities |-> 0], again |-> FALSE]

Init ==
    /\ hass_state = "not_running"
    /\ states = [e \in Entities |-> None]
    /\ added = [g \in GroupSensors |-> FALSE]
    /\ pending = [g \in GroupSensors |-> 0]
    /\ native_value = [g \in GroupSensors |-> NoValue]
    /\ available = [g \in GroupSensors |-> TRUE]
    /\ store = [e \in Entities |-> None]
    /\ reset_tasks = [e \in Entities |-> 0]
    /\ last = NoOp
    /\ got = None
    /\ written = [e \in Entities |-> None]
    /\ disk = NoDocument
    /\ slot = Absent
    /\ caller = [g \in Groups |-> "idle"]
    /\ returned = [g \in Groups |-> 0]
    /\ instances = 0
    /\ loads = 0
    /\ timers = 0
    /\ stop_listeners = 0
    /\ cancels = 0
    /\ stopped = FALSE
    /\ flushes = 0
    /\ saved = [e \in Entities |-> None]
    /\ LibInit
    /\ configured_entities = {}
    /\ added_entities = <<>>
    /\ setup = NoSetup
    /\ calc = NoCalc
    /\ standby_sensors = NoSensors
    /\ standby_value = NoValue
    /\ recalculated = Nothing
    /\ account = [g \in EnergyGroups |-> NoAccount]
    /\ individual = [c \in IndividualCallers |-> NoIndividual]
    /\ discovered_entities = {}
    /\ sensors_created = [source \in IndividualSources |-> 0]
    /\ config_entries = [id \in EntryIds |-> NoEntry]
    /\ entry_call = NoEntryCall

\* ---------------------------------------------------------------------------
\* PreviousStateStore accessors
\* ---------------------------------------------------------------------------
get_entity_state(st, entity_id) == st[entity_id]

\* variant: the write is lost
set_entity_state_lost(st, entity_id, state) == st

\* variant: the map is replaced by one holding only the new entry
set_entity_state_only(st, entity_id, state) ==
    [k \in DOMAIN st |-> IF k = entity_id THEN state ELSE None]

set_entity_state(st, entity_id, state) == [st EXCEPT ![entity_id] = state]

\* ---------------------------------------------------------------------------
\* Unit conversion and rounding
\* ---------------------------------------------------------------------------
\* PowerConverter / EnergyConverter ratios relative to W / Wh
UnitRatio(u) == IF u \in {"kW", "kWh"} THEN 1000 ELSE 1

Convert(value, from_unit, to_unit) ==
    (value * UnitRatio(from_unit)) \div UnitRatio(to_unit)

\* variant: the unit of the member's reading is ignored
value_without_conversion(g, state) == state.val

_get_state_value_in_native_unit(g, state) ==
    IF state.unit # "" /\ native_unit_of_measurement(g) # state.unit
    THEN Convert(state.val, state.unit, native_unit_of_measurement(g))
    ELSE state.val

\* round(Decimal, rounding_digits): round half to even
Round(x) ==
    LET q == x \div RoundQuantum
        r == x % RoundQuantum
    IN  IF 2 * r < RoundQuantum THEN q * RoundQuantum
        ELSE IF 2 * r > RoundQuantum THEN (q + 1) * RoundQuantum
        ELSE IF q % 2 = 0 THEN q * RoundQuantum
        ELSE (q + 1) * RoundQuantum

\* ---------------------------------------------------------------------------
\* calculate_new_state
\* ---------------------------------------------------------------------------
\* member_states is a sequence of [entity_id, state] pairs
RECURSIVE PowerSum(_, _)
PowerSum(g, member_states) ==
    IF member_states = <<>> THEN 0
    ELSE _get_state_value_in_native_unit(g, Head(member_states).state)
            + PowerSum(g, Tail(member_states))

power_calculate_new_state(g, member_states) == PowerSum(g, member_states)

\* the previous value of a member without a stored state
default_prev_state(self_state, cur_state) ==
    IF Truthy(self_state) THEN cur_state ELSE 0

\* variant: a negative delta is subtracted
add_delta_signed(group_sum, delta) == group_sum + delta

\* "if delta < 0: continue" / "group_sum += delta"
add_delta(group_sum, delta) ==
    IF delta < 0 THEN group_sum ELSE group_sum + delta

\* the for loop of GroupedEnergySensor.calculate_new_state; acc carries
\* group_sum and the store as the loop has changed it so far
RECURSIVE EnergyLoop(_, _, _, _)
EnergyLoop(g, self_state, member_states, acc) ==
    IF member_states = <<>> THEN acc
    ELSE
        LET entity_state == Head(member_states)
            prev_state == get_entity_state(acc.states, entity_state.entity_id)
            cur_state == _get_state_value_in_native_unit(g, entity_state.state)
            prev_value ==
                IF prev_state # None
                THEN _get_state_value_in_native_unit(g, prev_state)
                ELSE default_prev_state(self_state, cur_state)
            new_states == set_entity_state(acc.states, entity_state.entity_id,
                                           entity_state.state)
            delta == cur_state - prev_value
        IN  EnergyLoop(g, self_state, Tail(member_states),
                [group_sum |-> add_delta(acc.group_sum, delta),
                 states |-> new_states,
                 deltas |-> [acc.deltas EXCEPT ![entity_state.entity_id] = delta]])

\* Decimal(self.state) raises for a non-numeric string
energy_raises(self_state) == self_state.kind = "bad"

energy_calculate_new_state(g, self_state, member_states, st) ==
    EnergyLoop(g, self_state, member_states,
        [group_sum |-> IF self_state.kind = "none" THEN 0 ELSE self_state.val,
         states |-> st, deltas |-> [e \in Entities |-> 0]])

\* ---------------------------------------------------------------------------
\* GroupedSensor.on_state_change
\* ---------------------------------------------------------------------------
StatesOf(g, hs) ==
    [i \in 1..Len(GroupEntities(g)) |->
        [entity_id |-> GroupEntities(g)[i], state |-> hs[GroupEntities(g)[i]]]]

IsSome(s) == s.state # None

\* variant: only STATE_UNAVAILABLE is filtered out
IsAvailable_but_unknown(s) == s.state.state # STATE_UNAVAILABLE

IsAvailable(s) == s.state.state \notin {STATE_UNKNOWN, STATE_UNAVAILABLE}
IsUnavailable(s) == s.state.state = STATE_UNAVAILABLE

RECURSIVE EntityIds(_)
EntityIds(ss) ==
    IF ss = <<>> THEN <<>> ELSE <<Head(ss).entity_id>> \o EntityIds(Tail(ss))

\* list.remove(x): drops the first occurrence
RECURSIVE ListRemove(_, _)
ListRemove(l, x) ==
    IF l = <<>> THEN <<>>
    ELSE IF Head(l) = x THEN Tail(l)
    ELSE <<Head(l)>> \o ListRemove(Tail(l), x)

\* variant: an unavailable member is dropped from the list whether or not the
\* store has a snapshot for it
RECURSIVE SubstituteLoop_dropping(_, _, _, _)
SubstituteLoop_dropping(i, unavailable_entities, available_states, st) ==
    IF i > Len(unavailable_entities)
    THEN [unavailable_entities |-> unavailable_entities,
          available_states |-> available_states]
    ELSE
        LET entity_id == unavailable_entities[i]
            prev_state == get_entity_state(st, entity_id)
        IN  SubstituteLoop_dropping(i + 1,
                ListRemove(unavailable_entities, entity_id),
                IF prev_state # None
                THEN Append(available_states,
                            [entity_id |-> entity_id, state |-> prev_state])
                ELSE available_states,
                st)

\* "for entity_id in unavailable_entities" with the list's iterator at index i;
\* the body removes from the list it iterates over
RECURSIVE SubstituteLoop(_, _, _, _)
SubstituteLoop(i, unavailable_entities, available_states, st) ==
    IF i > Len(unavailable_entities)
    THEN [unavailable_entities |-> unavailable_entities,
          available_states |-> available_states]
    ELSE
        LET entity_id == unavailable_entities[i]
            prev_state == get_entity_state(st, entity_id)
        IN  IF prev_state # None
            THEN SubstituteLoop(i + 1,
                    ListRemove(unavailable_entities, entity_id),
                    Append(available_states,
                           [entity_id |-> entity_id, state |-> prev_state]),
                    st)
            ELSE SubstituteLoop(i + 1, unavailable_entities, available_states, st)

\* the handler's result: outcome, and the new value, availability and store
on_state_change(g, hs, self_state, self_available, st) ==
    LET all_states == StatesOf(g, hs)
        sts == SelectSeq(all_states, IsSome)
        available_states0 == SelectSeq(sts, IsAvailable)
        unavailable_entities0 == EntityIds(SelectSeq(sts, IsUnavailable))
        substitute == unavailable_entities0 # <<>> /\ isinstance_GroupedEnergySensor(g)
        sub == IF substitute
               THEN SubstituteLoop(1, unavailable_entities0, available_states0, st)
               ELSE [unavailable_entities |-> unavailable_entities0,
                     available_states |-> available_states0]
        unchanged(outcome, avail) ==
            [outcome |-> outcome, value |-> self_state, available |-> avail,
             states |-> st, summed |-> 0, deltas |-> [e \in Entities |-> 0]]
    IN  IF substitute /\ sub.unavailable_entities # <<>>
        THEN unchanged("unavailable", FALSE)
        ELSE IF sub.available_states = <<>>
        THEN unchanged("unavailable", FALSE)
        ELSE IF isinstance_GroupedEnergySensor(g)
        THEN IF energy_raises(self_state)
             THEN unchanged("raised", self_available)
             ELSE LET res == energy_calculate_new_state(g, self_state,
                                    sub.available_states, st)
                  IN  [outcome |-> "computed",
                       value |-> NumValue(Round(res.group_sum)),
                       available |-> TRUE, states |-> res.states,
                       summed |-> res.group_sum, deltas |-> res.deltas]
        ELSE LET summed == power_calculate_new_state(g, sub.available_states)
             IN  [outcome |-> "computed",
                  value |-> NumValue(Round(summed)),
                  available |-> TRUE, states |-> st,
                  summed |-> summed, deltas |-> [e \in Entities |-> 0]]

\* ---------------------------------------------------------------------------
\* Actions
\* ---------------------------------------------------------------------------
\* a handler of group g ran: remember the value and the store it started from
Ran(op, g, outcome, summed, deltas) ==
    [op |-> op, g |-> g, e |-> "", outcome |-> outcome,
     value |-> native_value[g], store |-> store,
     summed |-> summed, deltas |-> deltas,
     again |-> /\ last.op = op /\ last.g = g
               /\ last.outcome # "skipped" /\ outcome # "skipped"]

\* any other step
Did(op, e, outcome) == [NoOp EXCEPT !.op = op, !.e = e, !.outcome = outcome]

GroupsOf(e) == {g \in GroupSensors : e \in Range(GroupEntities(g))}

\* the host reaches CoreState.running
HassStart ==
    /\ hass_state = "not_running"
    /\ hass_state' = "running"
    /\ last' = Did("start", "", "")
    /\ UNCHANGED <<states, added, pending, native_value, available, store,
                   reset_tasks, got, written>>
    /\ UNCHANGED otherVars

\* GroupedSensor.async_added_to_hass: restore the last state, subscribe
AddedToHass(g, restored) ==
    /\ ~added[g]
    /\ added' = [added EXCEPT ![g] = TRUE]
    /\ native_value' = IF restored # NoValue
                       THEN [native_value EXCEPT ![g] = restored]
                       ELSE native_value
    /\ last' = Did("async_added_to_hass", "", "")
    /\ UNCHANGED <<hass_state, states, pending, available, store, reset_tasks,
                   got, written>>
    /\ UNCHANGED otherVars

\* the host's state machine records a new state for a member and queues the
\* state_changed callback of every subscribed group
Notify(e) ==
    /\ \A g \in GroupsOf(e) : added[g] => pending[g] < MaxPending
    /\ pending' = [g \in GroupSensors |->
                    IF g \in GroupsOf(e) /\ added[g] THEN pending[g] + 1
                    ELSE pending[g]]

\* the running total of an energy group only grows: bound it
BelowMaxTotal(e) ==
    \A g \in GroupsOf(e) :
        isinstance_GroupedEnergySensor(g) => native_value[g].val < MaxTotal

MemberChange(e, r) ==
    /\ states[e] # r
    /\ BelowMaxTotal(e)
    /\ states' = [states EXCEPT ![e] = r]
    /\ Notify(e)
    /\ last' = Did("set_state", e, "")
    /\ UNCHANGED <<hass_state, added, native_value, available, store,
                   reset_tasks, got, written>>
    /\ UNCHANGED otherVars

\* variant: the callback never looks at the state of the host
is_running_always(state) == TRUE

\* "self.hass.state != CoreState.running" lets the callback return at once
is_running(state) == state = "running"

\* one queued state_changed callback of group g runs
StateChanged(g) ==
    /\ added[g]
    /\ pending[g] > 0
    /\ pending' = [pending EXCEPT ![g] = @ - 1]
    /\ IF ~is_running(hass_state)
       THEN /\ last' = Ran("on_state_change", g, "skipped", 0, NoOp.deltas)
            /\ UNCHANGED <<native_value, available, store>>
       ELSE LET res == on_state_change(g, states, native_value[g],
                                       available[g], store)
            IN  /\ native_value' = [native_value EXCEPT ![g] = res.value]
                /\ available' = [available EXCEPT ![g] = res.available]
                /\ store' = res.states
                /\ last' = Ran("on_state_change", g, res.outcome,
                                    res.summed, res.deltas)
    /\ UNCHANGED <<hass_state, states, added, reset_tasks, got, written>>

OnStateChange(g) == StateChanged(g) /\ UNCHANGED otherVars

\* what group g has counted once it has recomputed its total from the
\* readings of its members that report a number
Observe(a, g) ==
    LET reports(e) == e \in Range(GroupEntities(g)) /\ states[e].state = "num"
        reading(e) ==
            Value(IF states[e].unit = "kWh" THEN 1000 * states[e].val
                  ELSE states[e].val)
    IN  [start |-> IF a.start.kind # "none" THEN a.start
                   ELSE Value(IF native_value[g].kind = "none" THEN 0
                              ELSE native_value[g].val),
         first |-> [e \in DOMAIN a.first |->
                      IF a.first[e].kind = "none" /\ reports(e) THEN reading(e)
                      ELSE a.first[e]],
         seen |-> [e \in DOMAIN a.seen |->
                      IF reports(e) THEN reading(e) ELSE a.seen[e]]]

\* the callback of an energy group runs and what it counted is booked
AccountedStateChange(g) ==
    /\ StateChanged(g)
    /\ account' = IF last'.outcome = "computed"
                  THEN [account EXCEPT ![g] = Observe(account[g], g)]
                  ELSE account
    /\ UNCHANGED <<lifeVars, libVars, platformVars, calc, standbyVars,
                   individualVars, entryVars>>

\* variant: the loop ends after the first member
ResetLoop_first_only(entities, acc) ==
    IF entities = <<>> THEN acc
    ELSE [tasks |-> [acc.tasks EXCEPT ![Head(entities)] = @ + 1],
          states |-> set_entity_state(acc.states, Head(entities), ZeroState)]

\* the for loop of GroupedEnergySensor.async_reset
RECURSIVE ResetLoop(_, _)
ResetLoop(entities, acc) ==
    IF entities = <<>> THEN acc
    ELSE ResetLoop(Tail(entities),
            [tasks |-> [acc.tasks EXCEPT ![Head(entities)] = @ + 1],
             states |-> set_entity_state(acc.states, Head(entities), ZeroState)])

async_reset(g) ==
    /\ isinstance_GroupedEnergySensor(g)
    /\ added[g]
    /\ \A e \in Range(GroupEntities(g)) : reset_tasks[e] < MaxResetTasks
    /\ LET res == ResetLoop(GroupEntities(g),
                            [tasks |-> reset_tasks, states |-> store])
       IN  /\ reset_tasks' = res.tasks
           /\ store' = res.states
    /\ native_value' = [native_value EXCEPT ![g] = NumValue(0)]
    /\ last' = Ran("async_reset", g, "", 0, NoOp.deltas)
    /\ UNCHANGED <<hass_state, states, added, pending, available, got, written>>
    /\ UNCHANGED otherVars

\* the member's own reset: its energy reading restarts at zero
member_reset(e) == Num(0, UnitOf(e))

\* a reset_energy service call created by async_reset runs; it either resets
\* the member or fails
ResetTaskRun(e, ok) ==
    /\ reset_tasks[e] > 0
    /\ reset_tasks' = [reset_tasks EXCEPT ![e] = @ - 1]
    /\ IF ok /\ states[e] # member_reset(e)
       THEN /\ states' = [states EXCEPT ![e] = member_reset(e)]
            /\ Notify(e)
       ELSE UNCHANGED <<states, pending>>
    /\ last' = Did("reset_energy", e, IF ok THEN "done" ELSE "failed")
    /\ UNCHANGED <<hass_state, added, native_value, available, store, got,
                   written>>
    /\ UNCHANGED otherVars

\* PreviousStateStore.set_entity_state called by a group sensor
StoreSet(entity_id, state) ==
    /\ store' = set_entity_state(store, entity_id, state)
    /\ written' = [written EXCEPT ![entity_id] = state]
    /\ last' = Did("set_entity_state", entity_id, "")
    /\ UNCHANGED <<hass_state, states, added, pending, native_value, available,
                   reset_tasks, got>>
    /\ UNCHANGED otherVars

\* PreviousStateStore.get_entity_state called by a group sensor
StoreGet(entity_id) ==
    /\ got' = get_entity_state(store, entity_id)
    /\ last' = Did("get_entity_state", entity_id, "")
    /\ UNCHANGED <<hass_state, states, added, pending, native_value, available,
                   store, reset_tasks, written>>
    /\ UNCHANGED otherVars

\* ---------------------------------------------------------------------------
\* PreviousStateStore: the singleton, loading and persisting
\* ---------------------------------------------------------------------------
\* numbers a state string of the document can stand for
ParsableVals == 0..16

\* variant: the attributes are not written
as_dict_without_attributes(entity_id, state) ==
    [entity_id |-> entity_id,
     state |-> IF state.state = "num" THEN ToString(state.val) ELSE state.state,
     unit_of_measurement |-> ""]

\* State.as_dict as the JSONEncoder writes it: the state becomes a string, the
\* unit an attribute
as_dict(entity_id, state) ==
    [entity_id |-> entity_id,
     state |-> IF state.state = "num" THEN ToString(state.val) ELSE state.state,
     unit_of_measurement |-> state.unit]

\* variant: the attributes of the entry are not read back
from_dict_unitless(json_state) ==
    IF json_state.entity_id = "" \/ json_state.state = "" THEN None
    ELSE IF json_state.state \in {STATE_UNKNOWN, STATE_UNAVAILABLE}
    THEN [state |-> json_state.state, val |-> 0, unit |-> ""]
    ELSE Num(CHOOSE v \in ParsableVals : ToString(v) = json_state.state, "")

\* State.from_dict: None when the entry lacks entity_id or state
from_dict(json_state) ==
    IF json_state.entity_id = "" \/ json_state.state = "" THEN None
    ELSE IF json_state.state \in {STATE_UNKNOWN, STATE_UNAVAILABLE}
    THEN [state |-> json_state.state, val |-> 0,
          unit |-> json_state.unit_of_measurement]
    ELSE Num(CHOOSE v \in ParsableVals : ToString(v) = json_state.state,
             json_state.unit_of_measurement)

\* store.async_save(self.states): one entry per key of the dict
async_save(st) ==
    [exists |-> TRUE,
     data |-> [e \in Entities |->
                IF st[e] = None THEN NoJson ELSE as_dict(e, st[e])]]

\* the dict comprehension over stored_states.items(); None or a failed read
\* gives the empty dict
loaded_states(stored_states, read_ok) ==
    IF ~read_ok \/ ~stored_states.exists THEN [e \in Entities |-> None]
    ELSE [e \in Entities |->
            IF stored_states.data[e] = NoJson THEN None
            ELSE from_dict(stored_states.data[e])]

\* variant: a call made while the first is still loading starts its own load
singleton_enter_unguarded(g, sl) ==
    IF sl.kind \in {"absent", "event"} THEN "loading" ELSE "done"

\* the singleton wrapper entered by group sensor g (async_added_to_hass): the
\* first call constructs the instance and awaits store.async_load, a call made
\* meanwhile waits for the event, a later call gets the instance
singleton_enter(g, sl) ==
    IF sl.kind = "absent" THEN "loading"
    ELSE IF sl.kind = "event" THEN "waiting"
    ELSE "done"

GetInstanceCall(g) ==
    /\ caller[g] = "idle"
    /\ ~stopped
    /\ LET pos == singleton_enter(g, slot)
       IN  /\ caller' = [caller EXCEPT ![g] = pos]
           /\ IF pos = "loading"
              THEN /\ slot' = Event
                   /\ instances' = instances + 1
                   /\ loads' = loads + 1
                   /\ returned' = [returned EXCEPT ![g] = instances + 1]
              ELSE /\ returned' = [returned EXCEPT ![g] = slot.id]
                   /\ UNCHANGED <<slot, instances, loads>>
           /\ last' = Did("async_get_instance", g, pos)
    /\ UNCHANGED <<sensorVars, store, got, written, disk, timers,
                   stop_listeners, cancels, stopped, flushes, saved>>
    /\ UNCHANGED <<libVars, restVars>>

\* async_setup_dump: one interval timer and one stop listener
async_setup_dump(n) == n + 1

\* variant: nothing is set up after a failed read
setup_unless_failed(n, read_ok) == IF read_ok THEN async_setup_dump(n) ELSE n

\* instance.async_setup_dump() follows the try/except whatever the read did
setup_after_load(n, read_ok) == async_setup_dump(n)

\* store.async_load of the first call completes, or raises HomeAssistantError
\* (read_ok false); the rest of async_get_instance runs and the event is set
LoadDone(g, read_ok) ==
    /\ caller[g] = "loading"
    /\ store' = loaded_states(disk, read_ok)
    /\ written' = IF read_ok /\ disk.exists THEN saved
                  ELSE [e \in Entities |-> None]
    /\ timers' = setup_after_load(timers, read_ok)
    /\ stop_listeners' = setup_after_load(stop_listeners, read_ok)
    /\ slot' = Instance(returned[g])
    /\ caller' = [caller EXCEPT ![g] = "done"]
    /\ last' = Did("async_load", g,
                   IF ~read_ok THEN "failed"
                   ELSE IF disk.exists THEN "loaded" ELSE "empty")
    /\ UNCHANGED <<sensorVars, got, disk, returned, instances, loads, cancels,
                   stopped, flushes, saved>>
    /\ UNCHANGED <<libVars, restVars>>

\* a call that waited for the event resumes and returns hass.data[data_key]
WaitDone(g) ==
    /\ caller[g] = "waiting"
    /\ slot.kind = "instance"
    /\ caller' = [caller EXCEPT ![g] = "done"]
    /\ returned' = [returned EXCEPT ![g] = slot.id]
    /\ last' = Did("async_get_instance", g, "resumed")
    /\ UNCHANGED <<sensorVars, store, got, written, disk, slot, instances,
                   loads, timers, stop_listeners, cancels, stopped, flushes,
                   saved>>
    /\ UNCHANGED <<libVars, restVars>>

\* variant: a failed write leaves an empty document behind
persist_states_truncating(doc, st, write_ok) ==
    IF write_ok THEN async_save(st) ELSE async_save([e \in Entities |-> None])

\* persist_states: the document is replaced by the current map, or the write
\* raises HomeAssistantError, which is logged
persist_states(doc, st, write_ok) == IF write_ok THEN async_save(st) ELSE doc

\* _async_dump_states: the interval timer fires
Tick(write_ok) ==
    /\ timers > 0
    /\ disk' = persist_states(disk, store, write_ok)
    /\ saved' = IF write_ok THEN written ELSE saved
    /\ last' = Did("tick", "", IF write_ok THEN "saved" ELSE "failed")
    /\ UNCHANGED <<sensorVars, store, got, written, slot, caller, returned,
                   instances, loads, timers, stop_listeners, cancels, stopped,
                   flushes>>
    /\ UNCHANGED <<libVars, restVars>>

\* variant: the timer is left running
cancel_interval_forgotten(n) == n

\* cancel_interval()
cancel_interval(n) == n - 1

\* EVENT_HOMEASSISTANT_STOP: _async_dump_states_at_stop starts for the listener
\* registered with async_listen_once and runs up to its await: the timer is
\* cancelled. The host stops once set-up has settled: no async_get_instance
\* call is in flight. From here on the host is in CoreState.stopping.
HassStop ==
    /\ ~stopped
    /\ \A g \in Groups : caller[g] \in {"idle", "done"}
    /\ stopped' = TRUE
    /\ hass_state' = "stopping"
    /\ IF stop_listeners > 0
       THEN /\ timers' = cancel_interval(timers)
            /\ cancels' = cancels + 1
            /\ stop_listeners' = stop_listeners - 1
            /\ flushes' = flushes + 1
            /\ last' = Did("stop", "", "cancelled")
       ELSE /\ last' = Did("stop", "", "no_listener")
            /\ UNCHANGED <<timers, cancels, stop_listeners, flushes>>
    /\ UNCHANGED <<states, added, pending, native_value, available,
                   reset_tasks, store, got, written, slot, caller, returned,
                   instances, loads, disk, saved>>
    /\ UNCHANGED <<libVars, restVars>>

\* the stop handler's await self.persist_states() runs
StopFlush(write_ok) ==
    /\ flushes > 0
    /\ flushes' = flushes - 1
    /\ disk' = persist_states(disk, store, write_ok)
    /\ saved' = IF write_ok THEN written ELSE saved
    /\ last' = Did("flush", "", IF write_ok THEN "saved" ELSE "failed")
    /\ UNCHANGED <<sensorVars, store, got, written, slot, caller, returned,
                   instances, loads, timers, stop_listeners, cancels, stopped>>
    /\ UNCHANGED <<libVars, restVars>>

\* the process ends and a new one starts: only the document survives; the
\* host is not running yet, its state machine is empty and no entity is added
NewProcess ==
    /\ stopped
    /\ flushes = 0
    /\ hass_state' = "not_running"
    /\ states' = [e \in Entities |-> None]
    /\ added' = [g \in GroupSensors |-> FALSE]
    /\ pending' = [g \in GroupSensors |-> 0]
    /\ native_value' = [g \in GroupSensors |-> NoValue]
    /\ available' = [g \in GroupSensors |-> TRUE]
    /\ reset_tasks' = [e \in Entities |-> 0]
    /\ store' = [e \in Entities |-> None]
    /\ written' = [e \in Entities |-> None]
    /\ got' = None
    /\ slot' = Absent
    /\ caller' = [g \in Groups |-> "idle"]
    /\ returned' = [g \in Groups |-> 0]
    /\ instances' = 0
    /\ loads' = 0
    /\ timers' = 0
    /\ stop_listeners' = 0
    /\ cancels' = 0
    /\ stopped' = FALSE
    /\ last' = Did("new_process", "", "")
    /\ UNCHANGED <<disk, saved, flushes>>
    /\ UNCHANGED <<libVars, restVars>>

\* a group sensor holding the instance writes or reads a state
HasInstance == \E g \in Groups : caller[g] = "done"

\* ---------------------------------------------------------------------------
\* LocalLoader
\* ---------------------------------------------------------------------------
\* PowerProfile as the local index holds it: the key it is filed under, its
\* model (directory name or alias), its directory and its json_data
Entry(key, model, directory, json) ==
    [key |-> key, model |-> model, directory |-> directory, json_data |-> json]

\* os.path.join(manufacturer_path, model_dir)
model_path(manufacturer_dir, model_dir) == <<"data", manufacturer_dir, model_dir>>

\* a pattern that matches no directory name
is_hidden_never(model_dir) == FALSE

\* re.compile(r"^\..*").match(model_dir)
is_hidden(model_dir) == model_dir # <<>> /\ model_dir[1] \in {".git", ".DS_Store"}

\* a lookup that finds no key taken
has_key_never(entries, key) == FALSE

\* library[manufacturer].get(key)
has_key(entries, key) == \E i \in 1..Len(entries) : entries[i].key = key

\* the loop over profile.aliases: each alias is filed under its lower-cased
\* key with the model's directory and json; a used key raises
RECURSIVE add_aliases(_, _, _, _)
add_aliases(entries, aliases, directory, json) ==
    IF aliases = <<>> THEN Value(entries)
    ELSE LET alias == Head(aliases)
         IN  IF has_key(entries, lower(alias))
             THEN Raised("LibraryLoadingError")
             ELSE add_aliases(
                      Append(entries, Entry(lower(alias), alias, directory, json)),
                      Tail(aliases), directory, json)

\* one pass of the loop over the model directories of a manufacturer
add_model_dir(entries, manufacturer_dir, d) ==
    IF is_hidden(d.dir) \/ ~d.has_json THEN Value(entries)
    ELSE IF has_key(entries, lower(d.dir)) THEN Raised("LibraryLoadingError")
    ELSE add_aliases(
             Append(entries,
                    Entry(lower(d.dir), d.dir,
                          model_path(manufacturer_dir, d.dir), d.json)),
             d.json.aliases, model_path(manufacturer_dir, d.dir), d.json)

RECURSIVE add_model_dirs(_, _, _)
add_model_dirs(entries, manufacturer_dir, dirs) ==
    IF dirs = <<>> THEN Value(entries)
    ELSE LET r == add_model_dir(entries, manufacturer_dir, Head(dirs))
         IN  IF r.kind = "raised" THEN r
             ELSE add_model_dirs(r.value, manufacturer_dir, Tail(dirs))

\* _load_custom_library: the index of the whole tree, or the exception
RECURSIVE _load_custom_library(_, _)
_load_custom_library(library, tree) ==
    IF tree = <<>> THEN Value(library)
    ELSE LET manufacturer == lower(Head(tree).name)
             r == add_model_dirs(library[manufacturer], Head(tree).name,
                                 Head(tree).models)
         IN  IF r.kind = "raised" THEN r
             ELSE _load_custom_library(
                      [library EXCEPT ![manufacturer] = r.value], Tail(tree))

\* dict.get on the loaders' manufacturer maps: no entries when the key is missing
models_of(listing, manufacturer) ==
    IF manufacturer \in DOMAIN listing THEN listing[manufacturer] ELSE <<>>

\* LocalLoader.find_model: the first profile, in index order, whose key is
\* among the lower-cased search phrases
local_find_model(idx, manufacturer, search) ==
    LET models == models_of(idx, lower(manufacturer))
        search_lower == {lower(phrase) : phrase \in search}
        hits == {i \in 1..Len(models) : lower(models[i].key) \in search_lower}
    IN  IF hits = {} THEN Nothing
        ELSE Value(models[CHOOSE i \in hits : \A j \in hits : i <= j].model)

\* _data_directory of a loader constructed on a custom model directory
data_directory == <<"custom">>

\* LocalLoader.load_model
local_load_model(cfg, idx, manufacturer, model) ==
    IF ~cfg.is_custom_directory
    THEN LET lib_models == models_of(idx, lower(manufacturer))
             hits == {i \in 1..Len(lib_models) : lib_models[i].key = lower(model)}
         IN  IF hits = {} THEN Nothing
             ELSE LET lib_model == lib_models[CHOOSE i \in hits : TRUE]
                  IN  Value(<<lib_model.json_data, lib_model.directory>>)
    ELSE IF ~cfg.has_json THEN Raised("LibraryLoadingError")
    ELSE Value(<<J_CUSTOM, data_directory>>)

\* LocalLoader.get_model_listing
local_get_model_listing(idx, manufacturer, device_type) ==
    LET models == models_of(idx, lower(manufacturer))
    IN  {models[i].model : i \in
            {j \in 1..Len(models) :
                device_type = "" \/ device_type = models[j].json_data.device_type}}

\* ---------------------------------------------------------------------------
\* RemoteLoader
\* ---------------------------------------------------------------------------
\* resp.json() of the answer of the manifest endpoint
resp_json(resp) ==
    IF resp.body = "text" THEN Raised("ContentTypeError")
    ELSE IF resp.body = "manifest" THEN Value(Contents(TRUE, Manifest))
    ELSE IF resp.body = "json" THEN Value(Contents(TRUE, <<>>))
    ELSE Value(NoContents)

\* load_library_json: library_contents afterwards, the exception if one left
\* the call, and the records logged
load_library_json(resp) ==
    LET fallback == IF resp.status # 200 THEN Contents(TRUE, BundledManifest)
                    ELSE NoContents
        records == [error |-> 0, debug |-> IF resp.status # 200 THEN 1 ELSE 0]
        json == resp_json(resp)
    IN  IF json.kind = "raised"
        THEN [contents |-> fallback, result |-> json, logged |-> records]
        ELSE [contents |-> json.value,
              result |-> IF json.value.truthy THEN Nothing
                         ELSE Raised("LibraryLoadingError"),
              logged |-> records]

\* initialize: manufacturer_models filled from the manifest
remote_initialize(manifest) ==
    [m \in ManufacturerKeys |->
        LET hits == {i \in 1..Len(manifest) : manifest[i].name = m}
        IN  IF hits = {} THEN <<>>
            ELSE manifest[CHOOSE i \in hits : TRUE].models]

\* RemoteLoader.find_model: the first model, in manifest order, whose id or
\* one of whose aliases is a search phrase
remote_find_model(mm, manufacturer, search) ==
    LET models == models_of(mm, manufacturer)
        hits == {i \in 1..Len(models) :
                    \E string \in search :
                        \/ string = models[i].id
                        \/ \E a \in 1..Len(models[i].aliases) :
                               models[i].aliases[a] = string}
    IN  IF hits = {} THEN Nothing
        ELSE Value(models[CHOOSE i \in hits : \A j \in hits : i <= j].id)

\* hass.config.path(STORAGE_DIR, "powercalc_profiles", manufacturer, model)
storage_path(manufacturer, model) == <<"powercalc_profiles", manufacturer, model>>

\* the model.json a download of the model brings
remote_json(model) ==
    IF model = PLUG THEN J_PLUG ELSE Json("lwb.json", <<<<"lwb">>>>, "light", NoString)

\* _download_profile: a listing that is not answered with 200 raises before
\* anything is created; otherwise the directory is made and the resources are
\* written one by one, an exception of a request leaving what was written
_download_profile(st, path, download) ==
    IF download.status # 200
    THEN [result |-> Raised("ProfileDownloadError"), storage |-> st]
    ELSE [result |-> IF download.fetched < Len(download.resources)
                     THEN Raised("ClientError") ELSE Nothing,
          storage |-> st \cup {path}
                         \cup {Append(path, download.resources[i]) :
                                   i \in 1..download.fetched}]

\* a check that always asks for a download
needs_update_always(st, path) == TRUE

\* needs_update: os.path.exists(storage_path) is false
needs_update(st, path) == path \notin st

\* RemoteLoader.load_model: the result, the files under powercalc_profiles
\* afterwards and whether _download_profile was called
remote_load_model(mm, st, manufacturer, model, directory, download) ==
    LET models == models_of(mm, manufacturer)
        path == storage_path(manufacturer, model)
        update == needs_update(st, path)
        d == IF update THEN _download_profile(st, path, download)
             ELSE [result |-> Nothing, storage |-> st]
    IN  IF directory # NoDirectory
        THEN [result |-> Nothing, storage |-> st, downloaded |-> FALSE]
        ELSE IF ~\E i \in 1..Len(models) : models[i].id = model
        THEN [result |-> Raised("LibraryLoadingError"), storage |-> st,
              downloaded |-> FALSE]
        ELSE IF d.result.kind = "raised"
        THEN [result |-> d.result, storage |-> d.storage, downloaded |-> update]
        ELSE IF Append(path, "model.json") \notin d.storage
        THEN [result |-> Raised("FileNotFoundError"), storage |-> d.storage,
              downloaded |-> update]
        ELSE [result |-> Value(<<remote_json(model), path>>),
              storage |-> d.storage, downloaded |-> update]

\* RemoteLoader.get_model_listing
remote_get_model_listing(mm, manufacturer, device_type) ==
    LET models == models_of(mm, manufacturer)
    IN  {models[i].id : i \in
            {j \in 1..Len(models) :
                device_type = "" \/ device_type = models[j].device_type}}

\* ---------------------------------------------------------------------------
\* CompositeLoader([LocalLoader, RemoteLoader])
\* ---------------------------------------------------------------------------
\* find_model: the first loader that returns a model wins
composite_find_model(idx, mm, manufacturer, search) ==
    LET local == local_find_model(idx, manufacturer, search)
    IN  IF local.kind = "value" THEN local
        ELSE remote_find_model(mm, manufacturer, search)

\* load_model: the first loader that returns data wins; an exception of a
\* loader ends the call
composite_load_model(lib, manufacturer, model, directory, download_ok) ==
    LET local == local_load_model(lib.config, lib.index, manufacturer, model)
    IN  IF local.kind # "none" THEN [result |-> local, storage |-> lib.storage]
        ELSE remote_load_model(lib.manufacturer_models, lib.storage,
                               manufacturer, model, directory,
                               download_of(download_ok))

\* get_model_listing: the union of the loaders' listings
composite_get_model_listing(idx, mm, manufacturer, device_type) ==
    local_get_model_listing(idx, manufacturer, device_type)
        \cup remote_get_model_listing(mm, manufacturer, device_type)

\* ---------------------------------------------------------------------------
\* ProfileLibrary
\* ---------------------------------------------------------------------------
\* PowerProfile: sub_profile is NoString while none is selected
Profile(manufacturer, model, directory, json_data, sub_profile) ==
    [manufacturer |-> manufacturer, model |-> model, directory |-> directory,
     json_data |-> json_data, sub_profile |-> sub_profile]

\* PowerProfile.select_sub_profile
select_sub_profile(profile, sub_profile) ==
    [profile EXCEPT !.sub_profile = sub_profile]

\* LibraryLoadingError is a LibraryError, ProfileDownloadError is not
IsLibraryError(error) == error \in {"LibraryError", "LibraryLoadingError"}

\* DOMAIN_DEVICE_TYPE.get(entity_domain) if entity_domain else None
device_type_of(entity_domain) ==
    CASE entity_domain = "light" -> "light"
      [] entity_domain = "switch" -> "smart_switch"
      [] OTHER -> ""

\* "if manufacturer in MANUFACTURER_DIRECTORY_MAPPING: manufacturer = ...get()"
directory_of(manufacturer) ==
    IF \E pair \in MANUFACTURER_DIRECTORY_MAPPING : pair[1] = manufacturer
    THEN (CHOOSE pair \in MANUFACTURER_DIRECTORY_MAPPING :
              pair[1] = manufacturer)[2]
    ELSE manufacturer

\* the search set of find_model
search_of(model) ==
    {model,
     replace_slash(model),
     lower(model),
     replace_slash(lower(model)),
     parenthetical(model)}

\* ProfileLibrary.find_model
find_model(idx, mm, manufacturer, model) ==
    composite_find_model(idx, mm, manufacturer, search_of(model))

\* variant: a LibraryError leaves the call
except_nothing(outcome) == outcome

\* "except LibraryError as e: ... return None"
except_LibraryError(outcome) ==
    IF outcome.kind = "raised" /\ IsLibraryError(outcome.error)
    THEN Nothing ELSE outcome

\* variant: no default is selected
select_default_never(profile) == profile

\* "if not profile.sub_profile and profile.sub_profile_select: ..."
select_default(profile) ==
    IF profile.sub_profile = NoString
       /\ profile.json_data.sub_profile_select # NoString
    THEN select_sub_profile(profile, profile.json_data.sub_profile_select)
    ELSE profile

\* ProfileLibrary.create_power_profile on library lib = [config, index,
\* manufacturer_models, storage]: what find_model resolved, what load_model
\* gave, the result and the profile directories afterwards
create_power_profile(lib, model_info, custom_directory, download_ok) ==
    LET manufacturer == lower(directory_of(model_info.manufacturer))
        found == IF custom_directory = NoDirectory
                 THEN find_model(lib.index, lib.manufacturer_models,
                                 manufacturer, model_info.model)
                 ELSE Value(model_info.model)
        resolved_model == found.value
        load == composite_load_model(lib, manufacturer, resolved_model,
                                     custom_directory, download_ok)
        loaded == IF load.result.kind = "none" THEN Raised("LibraryError")
                  ELSE load.result
    IN  IF found.kind = "none" \/ resolved_model = NoString
        THEN [found |-> found, loaded |-> Nothing, result |-> Nothing,
              storage |-> lib.storage]
        ELSE IF loaded.kind = "raised"
        THEN [found |-> found, loaded |-> load.result,
              result |-> except_LibraryError(loaded), storage |-> load.storage]
        ELSE [found |-> found, loaded |-> load.result,
              result |-> Value(select_default(
                            Profile(manufacturer, resolved_model,
                                    loaded.value[2], loaded.value[1],
                                    NoString))),
              storage |-> load.storage]

\* (manufacturer, model)
ModelInfo(manufacturer, model) == [manufacturer |-> manufacturer, model |-> model]

\* ProfileLibrary.get_profile
get_profile(lib, model_info, custom_directory, download_ok) ==
    LET compound == has_slash(model_info.model)
        sub_profile == IF compound THEN split(model_info.model)[2] ELSE NoString
        base == IF compound
                THEN ModelInfo(model_info.manufacturer, split(model_info.model)[1])
                ELSE model_info
        created == create_power_profile(lib, base, custom_directory, download_ok)
    IN  IF created.result.kind # "value" THEN created
        ELSE IF sub_profile # NoString
        THEN [created EXCEPT
                 !.result = Value(select_sub_profile(@.value, sub_profile))]
        ELSE created

\* the library object as the operators take it
Library ==
    [config |-> config, index |-> index,
     manufacturer_models |-> manufacturer_models, storage |-> storage]

\* ProfileLibrary.factory up to its await: the library in hass.data is
\* returned if there is one; otherwise the loaders and a ProfileLibrary are
\* constructed on what cfg describes and library.initialize() is started
FactoryCall(c, cfg) ==
    /\ factory_caller[c] = "idle"
    /\ config = NoConfig \/ config = cfg
    /\ IF lib_slot # 0
       THEN /\ factory_library' = [factory_library EXCEPT ![c] = lib_slot]
            /\ factory_caller' = [factory_caller EXCEPT ![c] = "done"]
            /\ UNCHANGED <<config, libraries, initializations>>
       ELSE /\ config' = cfg
            /\ libraries' = libraries + 1
            /\ initializations' = initializations + 1
            /\ factory_library' = [factory_library EXCEPT ![c] = libraries + 1]
            /\ factory_caller' = [factory_caller EXCEPT ![c] = "initializing"]
    /\ call' = [NoCall EXCEPT !.op = "factory"]
    /\ UNCHANGED <<lib_state, index, manufacturer_models, lib_slot>>
    /\ UNCHANGED <<storage, _manufacturer_models, listing_queries>>
    /\ UNCHANGED remoteVars
    /\ UNCHANGED <<sensorVars, store, last, got, written, lifeVars, restVars>>

\* ProfileLibrary.factory after its await: initialize() has returned and the
\* library is stored in hass.data; a LibraryLoadingError of the local index
\* leaves the call and stores nothing
InitializeDone(c, resp) ==
    /\ factory_caller[c] = "initializing"
    /\ LET built == _load_custom_library([m \in ManufacturerKeys |-> <<>>],
                                         config.tree)
           remote == load_library_json(resp)
       IN  IF built.kind = "raised"
           THEN /\ lib_state' = "failed"
                /\ factory_caller' = [factory_caller EXCEPT ![c] = "raised"]
                /\ call' = [NoCall EXCEPT !.op = "initialize", !.result = built]
                /\ UNCHANGED <<index, manufacturer_models, lib_slot>>
                /\ UNCHANGED <<library_contents, response, logged>>
           ELSE /\ library_contents' = remote.contents
                /\ response' = resp
                /\ logged' = remote.logged
                /\ IF remote.result.kind = "raised"
                   THEN /\ lib_state' = "failed"
                        /\ factory_caller' =
                               [factory_caller EXCEPT ![c] = "raised"]
                        /\ call' = [NoCall EXCEPT !.op = "initialize",
                                                  !.result = remote.result]
                        /\ UNCHANGED <<index, manufacturer_models, lib_slot>>
                   ELSE /\ lib_state' = "ready"
                        /\ index' = built.value
                        /\ manufacturer_models' =
                               remote_initialize(remote.contents.manufacturers)
                        /\ lib_slot' = factory_library[c]
                        /\ factory_caller' =
                               [factory_caller EXCEPT ![c] = "done"]
                        /\ call' = [NoCall EXCEPT !.op = "initialize"]
    /\ UNCHANGED <<config, factory_library, libraries, initializations>>
    /\ UNCHANGED <<storage, _manufacturer_models, listing_queries>>
    /\ UNCHANGED <<load_calls, downloads, first_loaded>>
    /\ UNCHANGED <<sensorVars, store, last, got, written, lifeVars, restVars>>

\* find_model(manufacturer, model) called on the library
FindModel(manufacturer, model) ==
    /\ lib_state = "ready"
    /\ call' = [NoCall EXCEPT
                   !.op = "find_model",
                   !.manufacturer = manufacturer,
                   !.model = model,
                   !.result = find_model(index, manufacturer_models,
                                         manufacturer, model)]
    /\ UNCHANGED <<lib_state, config, index, manufacturer_models, storage,
                   _manufacturer_models, listing_queries>>
    /\ UNCHANGED <<factoryVars, remoteVars>>
    /\ UNCHANGED <<sensorVars, store, last, got, written, lifeVars, restVars>>

\* get_profile(ModelInfo(manufacturer, model), custom_directory); download_ok
\* tells whether a download the call needs succeeds
GetProfile(manufacturer, model, custom_directory, download_ok) ==
    /\ lib_state = "ready"
    /\ LET r == get_profile(Library, ModelInfo(manufacturer, model),
                            custom_directory, download_ok)
       IN  /\ storage' = r.storage
           /\ call' = [NoCall EXCEPT !.op = "get_profile",
                                     !.manufacturer = manufacturer,
                                     !.model = model,
                                     !.custom_directory = custom_directory,
                                     !.download_ok = download_ok,
                                     !.found = r.found,
                                     !.loaded = r.loaded,
                                     !.result = r.result]
    /\ UNCHANGED <<lib_state, config, index, manufacturer_models,
                   _manufacturer_models, listing_queries>>
    /\ UNCHANGED <<factoryVars, remoteVars>>
    /\ UNCHANGED <<sensorVars, store, last, got, written, lifeVars, restVars>>

\* RemoteLoader.load_model called on the loader of the library
LoadModel(manufacturer, model, directory, download) ==
    LET k == <<manufacturer, model>>
        r == remote_load_model(manufacturer_models, storage, manufacturer,
                               model, directory, download)
        counted == k \in RemoteModels /\ directory = NoDirectory
    IN  /\ lib_state = "ready"
        /\ counted => load_calls[k] < MaxLoadCalls
        /\ storage' = r.storage
        /\ load_calls' = IF counted THEN [load_calls EXCEPT ![k] = @ + 1]
                         ELSE load_calls
        /\ downloads' = IF counted /\ r.downloaded
                        THEN [downloads EXCEPT ![k] = @ + 1] ELSE downloads
        /\ first_loaded' =
               IF counted /\ first_loaded[k].kind = "none"
                          /\ r.result.kind = "value"
               THEN [first_loaded EXCEPT ![k] = r.result] ELSE first_loaded
        /\ call' = [NoCall EXCEPT !.op = "load_model",
                                  !.manufacturer = manufacturer,
                                  !.model = model,
                                  !.custom_directory = directory,
                                  !.result = r.result]
        /\ UNCHANGED <<lib_state, config, index, manufacturer_models,
                       _manufacturer_models, listing_queries>>
        /\ UNCHANGED <<factoryVars, library_contents, response, logged>>
        /\ UNCHANGED <<sensorVars, store, last, got, written, lifeVars, restVars>>

\* "if cached_models:" a cached list is served unless it is empty
is_cached(entry) == entry.cached /\ entry.models # <<>>

\* ProfileLibrary.get_model_listing
GetModelListing(manufacturer, entity_domain) ==
    LET device_type == device_type_of(entity_domain)
        cache_key == <<manufacturer, device_type>>
        cached_models == _manufacturer_models[cache_key]
    IN  /\ lib_state = "ready"
        /\ IF is_cached(cached_models)
           THEN /\ call' = [NoCall EXCEPT !.op = "get_model_listing",
                                          !.manufacturer = manufacturer,
                                          !.entity_domain = entity_domain,
                                          !.result = Value(cached_models.models)]
                /\ UNCHANGED <<_manufacturer_models, listing_queries>>
           ELSE /\ listing_queries[cache_key] < MaxListingQueries
                /\ LET models == composite_get_model_listing(
                                     index, manufacturer_models, manufacturer,
                                     device_type)
                   IN  /\ _manufacturer_models' =
                              [_manufacturer_models EXCEPT
                                  ![cache_key] = Listing(sorted(models))]
                       /\ call' = [NoCall EXCEPT
                                      !.op = "get_model_listing",
                                      !.manufacturer = manufacturer,
                                      !.entity_domain = entity_domain,
                                      !.result = Value(sorted(models))]
                /\ listing_queries' =
                       [listing_queries EXCEPT ![cache_key] = @ + 1]
        /\ UNCHANGED <<lib_state, config, index, manufacturer_models, storage>>
        /\ UNCHANGED <<factoryVars, remoteVars>>
        /\ UNCHANGED <<sensorVars, store, last, got, written, lifeVars, restVars>>

\* ---------------------------------------------------------------------------
\* The sensor platform (sensor.py)
\* ---------------------------------------------------------------------------
\* the exceptions that derive from PowercalcSetupError
is_PowercalcSetupError(error) ==
    error \in {"PowercalcSetupError", "SensorConfigurationError",
               "StrategyConfigurationError", "ModelNotSupported"}

\* create_power_sensor: the power sensor of the entity, or what it raises
create_power_sensor(sensor_config) ==
    IF sensor_config.error = ""
    THEN Value(Sensor(sensor_config.entity_id, "power"))
    ELSE Raised(sensor_config.error)

\* a handler that lets every exception pass
except_no_error(outcome) == outcome

\* "except PowercalcSetupError:" around create_power_sensor: Nothing when the
\* handler was entered
except_PowercalcSetupError(outcome) ==
    IF outcome.kind = "raised" /\ is_PowercalcSetupError(outcome.error)
    THEN Nothing ELSE outcome

\* create_individual_sensors without discovery_info: the sensors of one
\* entity and DATA_CONFIGURED_ENTITIES afterwards
create_individual_sensors(configured, sensor_config, create_energy_sensor) ==
    LET power == except_PowercalcSetupError(create_power_sensor(sensor_config))
    IN  IF sensor_config.entity_id \in configured
        THEN [result |-> Value(<<>>), configured |-> configured]
        ELSE IF power.kind = "none"
        THEN [result |-> Value(<<>>), configured |-> configured]
        ELSE IF power.kind = "raised"
        THEN [result |-> power, configured |-> configured]
        ELSE [result |->
                  Value(IF create_energy_sensor
                        THEN <<power.value,
                               Sensor(sensor_config.entity_id, "energy")>>
                        ELSE <<power.value>>),
              configured |-> configured \cup {sensor_config.entity_id}]

\* "for sensor_config in sensor_configs.values()": the sensors created so
\* far are extended by those of each entity; an exception ends the loop
RECURSIVE create_each(_, _, _, _)
create_each(configured, sensor_configs, create_energy_sensor, created_sensors) ==
    IF sensor_configs = <<>>
    THEN [result |-> Value(created_sensors), configured |-> configured]
    ELSE LET r == create_individual_sensors(configured, Head(sensor_configs),
                                            create_energy_sensor)
         IN  IF r.result.kind = "raised" THEN r
             ELSE create_each(r.configured, Tail(sensor_configs),
                              create_energy_sensor,
                              created_sensors \o r.result.value)

\* create_group_sensors: the group sensors of the power and energy sensors
create_group_sensors(group_name) ==
    <<Sensor(group_name, "group_power"), Sensor(group_name, "group_energy")>>

\* create_sensors for a configuration of several entities: an area that does
\* not exist raises before the loop; creating a group after a loop over no
\* entity reads merged_sensor_config before it was assigned
create_sensors(configured, platform_config) ==
    LET r == create_each(configured, platform_config.entities,
                         platform_config.create_energy_sensor, <<>>)
    IN  IF platform_config.area_missing
        THEN [result |-> Raised("SensorConfigurationError"),
              configured |-> configured]
        ELSE IF r.result.kind = "raised" \/ platform_config.create_group = "" THEN r
        ELSE IF platform_config.entities = <<>>
        THEN [result |-> Raised("UnboundLocalError"), configured |-> r.configured]
        ELSE [result |-> Value(r.result.value
                                   \o create_group_sensors(platform_config.create_group)),
              configured |-> r.configured]

\* async_setup_platform: the sensors create_sensors returned are added; a
\* SensorConfigurationError is logged, another exception leaves the call
SetupPlatform(platform_config) ==
    LET r == create_sensors(configured_entities, platform_config)
    IN  /\ configured_entities' = r.configured
        /\ added_entities' =
               IF r.result.kind = "value" /\ r.result.value # <<>>
               THEN r.result.value ELSE <<>>
        /\ setup' = [op |-> "async_setup_platform", config |-> platform_config,
                     before |-> configured_entities, result |-> r.result]
        /\ UNCHANGED <<sensorVars, store, last, got, written, lifeVars,
                       libVars, calc, extraVars>>

\* discovery_info is passed by the discovery manager only
has_discovery_info(c) == c = "discovery"

\* create_individual_sensors up to "await create_power_sensor": the entity is
\* looked up in DATA_CONFIGURED_ENTITIES; a call that finds it returns []
CreateIndividualCall(c, source) ==
    /\ individual[c].pc # "creating"
    /\ individual' =
           [individual EXCEPT ![c] =
               IF source \in configured_entities
               THEN [pc |-> "done", source |-> source, result |-> Value(<<>>)]
               ELSE [pc |-> "creating", source |-> source, result |-> Nothing]]
    /\ UNCHANGED <<configured_entities, discovered_entities, sensors_created>>
    /\ UNCHANGED <<sensorVars, store, last, got, written, lifeVars, libVars,
                   added_entities, setup, calc, standbyVars, account,
                   entryVars>>

\* create_power_sensor has returned or raised: the call goes on to its end
\* and files the entity under the discovered or the configured entities
CreateIndividualDone(c, error) ==
    /\ individual[c].pc = "creating"
    /\ sensors_created[individual[c].source] < MaxCreated
    /\ LET source == individual[c].source
           power == except_PowercalcSetupError(
                        create_power_sensor(SensorConfig(source, error)))
       IN  IF power.kind = "value"
           THEN /\ individual' =
                       [individual EXCEPT ![c] =
                           [pc |-> "done", source |-> source,
                            result |-> Value(<<power.value>>)]]
                /\ sensors_created' = [sensors_created EXCEPT ![source] = @ + 1]
                /\ IF has_discovery_info(c)
                   THEN /\ discovered_entities' =
                               discovered_entities \cup {source}
                        /\ UNCHANGED configured_entities
                   ELSE /\ configured_entities' =
                               configured_entities \cup {source}
                        /\ UNCHANGED discovered_entities
           ELSE /\ individual' =
                       [individual EXCEPT ![c] =
                           [pc |-> "done", source |-> source,
                            result |-> IF power.kind = "none"
                                       THEN Value(<<>>) ELSE power]]
                /\ UNCHANGED <<configured_entities, discovered_entities,
                               sensors_created>>
    /\ UNCHANGED <<sensorVars, store, last, got, written, lifeVars, libVars,
                   added_entities, setup, calc, standbyVars, account,
                   entryVars>>

\* ---------------------------------------------------------------------------
\* The calculation strategies (strategy/fixed.py, strategy/composite.py)
\* ---------------------------------------------------------------------------
\* evaluate_power of a number: the same number as a Decimal
evaluate_power(power) == Value(power)

\* str(entity_state.attributes.get(attribute))
attribute_str(entity_state, attribute) ==
    IF attribute = "source" /\ entity_state.source # ""
    THEN entity_state.source ELSE "None"

\* state_key.split("|", maxsplit): what is behind the last split stays one part
split_pipe(state_key, maxsplit) ==
    IF Len(state_key) <= maxsplit + 1 THEN state_key
    ELSE Append(SubSeq(state_key, 1, maxsplit),
                SubSeq(state_key, maxsplit + 1, Len(state_key)))

\* "for state_key, power in self._per_state_power.items()": the lookup by
\* state attribute; unpacking into (attribute, value) needs two parts
RECURSIVE lookup_by_attribute(_, _)
lookup_by_attribute(items, entity_state) ==
    IF items = <<>> THEN Nothing
    ELSE IF Len(Head(items).key) > 1
    THEN LET parts == split_pipe(Head(items).key, 2)
         IN  IF Len(parts) # 2 THEN Raised("ValueError")
             ELSE IF attribute_str(entity_state, parts[1]) = parts[2]
             THEN evaluate_power(Head(items).power)
             ELSE lookup_by_attribute(Tail(items), entity_state)
    ELSE lookup_by_attribute(Tail(items), entity_state)

\* FixedStrategy.calculate
fixed_calculate(strategy, entity_state) ==
    LET table == strategy.per_state_power.value
        by_state == {i \in 1..Len(table) : table[i].key = entity_state.state}
        by_attribute == lookup_by_attribute(table, entity_state)
        flat == IF strategy.power.kind = "none" THEN Nothing
                ELSE evaluate_power(strategy.power.value)
    IN  IF strategy.per_state_power.kind = "none" THEN flat
        ELSE IF by_state # {}
        THEN evaluate_power(table[CHOOSE i \in by_state : TRUE].power)
        ELSE IF by_attribute.kind # "none" THEN by_attribute
        ELSE flat

\* calculate called on a fixed strategy
CalculateFixed(strategy, entity_state) ==
    /\ calc' = [op |-> "fixed", strategy |-> strategy,
                entity_state |-> entity_state,
                result |-> fixed_calculate(strategy, entity_state),
                delegated |-> <<>>]
    /\ UNCHANGED <<sensorVars, store, last, got, written, lifeVars, libVars,
                   platformVars, extraVars>>

\* sub_strategy.condition(hass, {"state": entity_state})
holds(condition, entity_state) ==
    IF condition = "playing" THEN entity_state.state = <<"playing">>
    ELSE entity_state.source = "TV"

\* a test that skips no member
skips_never(sub_strategy, entity_state) == FALSE

\* "if sub_strategy.condition and not sub_strategy.condition(...): continue"
skips(sub_strategy, entity_state) ==
    sub_strategy.condition # "" /\ ~holds(sub_strategy.condition, entity_state)

\* CompositeStrategy.calculate from member i on: the result and the members
\* whose calculate was called
RECURSIVE composite_calculate(_, _, _)
composite_calculate(strategies, entity_state, i) ==
    IF i > Len(strategies) THEN [result |-> Nothing, delegated |-> <<>>]
    ELSE IF skips(strategies[i], entity_state)
    THEN composite_calculate(strategies, entity_state, i + 1)
    ELSE [result |-> fixed_calculate(strategies[i].strategy, entity_state),
          delegated |-> <<i>>]

\* calculate called on a composite strategy
CalculateComposite(strategies, entity_state) ==
    LET r == composite_calculate(strategies, entity_state, 1)
    IN  /\ calc' = [op |-> "composite", strategy |-> strategies,
                    entity_state |-> entity_state, result |-> r.result,
                    delegated |-> r.delegated]
        /\ UNCHANGED <<sensorVars, store, last, got, written, lifeVars, libVars,
                       platformVars, extraVars>>

\* ---------------------------------------------------------------------------
\* Specifications
\* ---------------------------------------------------------------------------
PowerMemberChange ==
    \E e \in Range(GroupEntities(PowerGroup)) : \E r \in Readings(e) :
        MemberChange(e, r)

EnergyMemberChange ==
    \E e \in Range(GroupEntities(EnergyGroup)) : \E r \in Readings(e) :
        MemberChange(e, r)

PowerAdded == \E v \in RestoredValues : AddedToHass(PowerGroup, v)
EnergyAdded == \E v \in RestoredValues : AddedToHass(EnergyGroup, v)

EnergyResetTask ==
    \E e \in Range(GroupEntities(EnergyGroup)) : \E ok \in BOOLEAN :
        ResetTaskRun(e, ok)

\* the power group alone
NextPower ==
    \/ HassStart
    \/ PowerAdded
    \/ PowerMemberChange
    \/ OnStateChange(PowerGroup)

SpecPower == Init /\ [][NextPower]_vars

\* the energy group, its members and the store
Next ==
    \/ HassStart
    \/ EnergyAdded
    \/ EnergyMemberChange
    \/ OnStateChange(EnergyGroup)
    \/ async_reset(EnergyGroup)
    \/ EnergyResetTask

Spec == Init /\ [][Next]_vars

\* the PreviousStateStore driven through its accessors
StoreIds == {"e1", "e2"}
Snapshots(e) == (Readings(e) \ {None}) \cup {ZeroState}

NextStore ==
    \/ \E e \in StoreIds : \E s \in Snapshots(e) : StoreSet(e, s)
    \/ \E e \in StoreIds : StoreGet(e)

SpecStore == Init /\ [][NextStore]_vars

\* the PreviousStateStore from construction to shutdown and over restarts
PersistIds == {"e1", "e2"}
PersistSnapshots(e) ==
    IF e = "e1" THEN {Num(4, "Wh"), ZeroState} ELSE {Num(1, "kWh"), Num(16, "kWh")}

NextPersist ==
    \/ \E g \in Groups : GetInstanceCall(g)
    \/ \E g \in Groups : \E read_ok \in BOOLEAN : LoadDone(g, read_ok)
    \/ \E g \in Groups : WaitDone(g)
    \/ \E e \in PersistIds : \E s \in PersistSnapshots(e) :
            HasInstance /\ StoreSet(e, s)
    \/ \E e \in PersistIds : HasInstance /\ StoreGet(e)
    \/ \E write_ok \in BOOLEAN : Tick(write_ok)
    \/ HassStop
    \/ \E write_ok \in BOOLEAN : StopFlush(write_ok)
    \/ NewProcess

SpecPersist == Init /\ [][NextPersist]_vars

\* the profile library: constructed once, then queried
NextLibrary ==
    \/ \E cfg \in LibraryConfigs : FactoryCall("first", cfg)
    \/ InitializeDone("first", OkResponse)
    \/ \E manufacturer \in QueryManufacturers : \E model \in QueryModels :
           \E option \in QueryOptions :
               GetProfile(manufacturer, model, option[1], option[2])
    \/ \E model \in QueryModels : FindModel(<<"signify">>, model)

SpecLibrary == Init /\ [][NextLibrary]_vars

\* the profile library asked for its model listings
NextListing ==
    \/ \E cfg \in Configs : FactoryCall("first", cfg)
    \/ InitializeDone("first", OkResponse)
    \/ \E manufacturer \in ListingManufacturers :
           \E entity_domain \in EntityDomains :
               GetModelListing(manufacturer, entity_domain)

SpecListing == Init /\ [][NextListing]_vars

\* the coroutines of the host asking for the library, their awaits interleaved
NextFactory ==
    \/ \E c \in FactoryCallers : \E cfg \in Configs : FactoryCall(c, cfg)
    \/ \E c \in FactoryCallers : \E resp \in Responses : InitializeDone(c, resp)

SpecFactory == Init /\ [][NextFactory]_vars

\* the remote loader of a library asked for the models of the manifest
NextRemote ==
    \/ FactoryCall("first", LoaderConfig(TreePlain, FALSE, FALSE))
    \/ InitializeDone("first", OkResponse)
    \/ \E manufacturer \in ListingManufacturers : \E model \in {LWB, PLUG, LCT} :
           \E directory \in CustomDirectories : \E download \in DownloadAnswers :
               LoadModel(manufacturer, model, directory, download)

SpecRemote == Init /\ [][NextRemote]_vars

\* the sensor platform set up for one configuration after the other
NextPlatform ==
    \E platform_config \in PlatformConfigs : SetupPlatform(platform_config)

SpecPlatform == Init /\ [][NextPlatform]_vars
\* ---------------------------------------------------------------------------
\* StandbyPowerSensor (sensors/group.py)
\* ---------------------------------------------------------------------------
\* a virtual power sensor goes into standby: it registers its standby power
StandbyEnter(e, power) ==
    /\ standby_sensors' =
           [k \in DOMAIN standby_sensors \cup {e} |->
               IF k = e THEN power ELSE standby_sensors[k]]
    /\ UNCHANGED <<standby_value, recalculated>>
    /\ UNCHANGED <<sensorVars, store, last, got, written, lifeVars, libVars,
                   platformVars, calc, account, individualVars, entryVars>>

\* a virtual power sensor leaves standby: it drops its registration
StandbyLeave(e) ==
    /\ e \in DOMAIN standby_sensors
    /\ standby_sensors' =
           [k \in DOMAIN standby_sensors \ {e} |-> standby_sensors[k]]
    /\ UNCHANGED <<standby_value, recalculated>>
    /\ UNCHANGED <<sensorVars, store, last, got, written, lifeVars, libVars,
                   platformVars, calc, account, individualVars, entryVars>>

\* sum(self.standby_sensors.values())
RECURSIVE standby_sum(_)
standby_sum(sensors) ==
    IF DOMAIN sensors = {} THEN 0
    ELSE LET e == CHOOSE k \in DOMAIN sensors : TRUE
         IN  sensors[e]
                + standby_sum([k \in DOMAIN sensors \ {e} |-> sensors[k]])

\* variant: the registry always counts as filled
dict_truthy_always(sensors) == TRUE

\* "if self.standby_sensors": a dict is truthy when it has an entry
dict_truthy(sensors) == DOMAIN sensors # {}

\* StandbyPowerSensor._recalculate
_recalculate(sensors) ==
    IF dict_truthy(sensors)
    THEN NumValue(Round(standby_sum(sensors)))
    ELSE UnknownValue

\* SIGNAL_POWER_SENSOR_STATE_CHANGE is dispatched: _recalculate runs
Recalculate ==
    /\ standby_value' = _recalculate(standby_sensors)
    /\ recalculated' = Value(standby_sensors)
    /\ UNCHANGED standby_sensors
    /\ UNCHANGED <<sensorVars, store, last, got, written, lifeVars, libVars,
                   platformVars, calc, account, individualVars, entryVars>>


\* fixed strategies asked for the power of a state
NextFixed ==
    \E strategy \in FixedStrategies : \E entity_state \in EntityStates :
        CalculateFixed(strategy, entity_state)

SpecFixed == Init /\ [][NextFixed]_vars

\* composite strategies asked for the power of a state
NextComposite ==
    \E strategies \in CompositeStrategies : \E entity_state \in EntityStates :
        CalculateComposite(strategies, entity_state)

SpecComposite == Init /\ [][NextComposite]_vars

\* the standby aggregator and the power sensors that register with it
NextStandby ==
    \/ \E e \in StandbyIds : \E power \in StandbyPowers : StandbyEnter(e, power)
    \/ \E e \in StandbyIds : StandbyLeave(e)
    \/ Recalculate

SpecStandby == Init /\ [][NextStandby]_vars

\* setups that create the sensors of the same source entities
NextIndividual ==
    \/ \E c \in IndividualCallers : \E source \in IndividualSources :
            CreateIndividualCall(c, source)
    \/ \E c \in IndividualCallers :
            \E error \in {"", "StrategyConfigurationError"} :
                CreateIndividualDone(c, error)

SpecIndividual == Init /\ [][NextIndividual]_vars

\* an energy group and its parent group, which share their members
SharedAdded ==
    \E g \in EnergyGroups : \E v \in {NoValue, StrValue(10)} : AddedToHass(g, v)

\* the shared members report readings
SharedMemberChange ==
    \E e \in Range(GroupEntities(ParentGroup)) : \E v \in ValsOf(e) :
        MemberChange(e, Num(v, UnitOf(e)))

NextShared ==
    \/ HassStart
    \/ SharedAdded
    \/ SharedMemberChange
    \/ AccountedStateChange(EnergyGroup)
    \/ AccountedStateChange(ParentGroup)

SpecShared == Init /\ [][NextShared]_vars

\* readings of an energy meter that counts in steps below a hundredth
FineVals(e) == IF e = "e1" THEN {0, 4, 8, 12} ELSE {0, 1}

\* the members of the energy group stay available and never count backwards
RisingMemberChange ==
    \E e \in Range(GroupEntities(EnergyGroup)) : \E v \in FineVals(e) :
        /\ states[e].state = "num" => v > states[e].val
        /\ MemberChange(e, Num(v, UnitOf(e)))

NextRising ==
    \/ HassStart
    \/ \E v \in {NoValue, StrValue(10)} : AddedToHass(EnergyGroup, v)
    \/ RisingMemberChange
    \/ AccountedStateChange(EnergyGroup)

SpecRising == Init /\ [][NextRising]_vars

\* ---------------------------------------------------------------------------
\* Vocabulary of the properties (stated over the variables, not over the
\* handlers' operators)
\* ---------------------------------------------------------------------------
Members(g) == Range(GroupEntities(g))

\* members whose current state is a reading (not None, unknown, unavailable)
UsableMembers(g) == {e \in Members(g) : states[e].state = "num"}
UnavailableMembers(g) == {e \in Members(g) : states[e].state = STATE_UNAVAILABLE}

\* a numeric snapshot expressed in W / Wh, the native units of the two groups
InNative(s) == IF s.unit \in {"kW", "kWh"} THEN 1000 * s.val ELSE s.val

RECURSIVE SumOver(_, _)
SumOver(S, f) ==
    IF S = {} THEN 0
    ELSE LET x == CHOOSE y \in S : TRUE IN f[x] + SumOver(S \ {x}, f)

Abs(x) == IF x < 0 THEN -x ELSE x
Max0(x) == IF x < 0 THEN 0 ELSE x

\* x rounded to two decimals, ties to the even hundredth
NearestHundredth(x) ==
    CHOOSE m \in {10 * k : k \in (x \div 10)..((x \div 10) + 1)} :
        \/ 2 * Abs(x - m) < 10
        \/ 2 * Abs(x - m) = 10 /\ (m \div 10) % 2 = 0

Processed(g) ==
    last.op = "on_state_change" /\ last.g = g /\ last.outcome # "skipped"
Computed(g) ==
    last.op = "on_state_change" /\ last.g = g /\ last.outcome = "computed"

\* the members whose reading was passed to calculate_new_state: the usable
\* ones and the unavailable ones replaced by their stored snapshot
Substituted(g) ==
    {e \in UnavailableMembers(g) : last.store[e] # None}
Participants(g) == UsableMembers(g) \cup Substituted(g)
Snapshot(e) == IF states[e].state = "num" THEN states[e] ELSE last.store[e]

\* the total the recomputation started from
PreviousTotal == IF last.value.kind = "none" THEN 0 ELSE last.value.val

\* the group had a state other than None and the number 0 when the handler ran
HadNonZeroState ==
    \/ last.value.kind \in {"str", "bad"}
    \/ last.value.kind = "num" /\ last.value.val # 0

\* the previous value of a member: its stored snapshot, and without one the
\* default calculate_new_state takes
PreviousOf(e) ==
    IF last.store[e] # None THEN InNative(last.store[e])
    ELSE IF HadNonZeroState THEN InNative(Snapshot(e)) ELSE 0

\* ---------------------------------------------------------------------------
\* Properties of the power group (SpecPower)
\* ---------------------------------------------------------------------------
\* C1: after a member state change processed while the host is running, if at
\* least one member has a usable state, the power group's value is the rounded
\* sum of exactly those members' values; unknown, unavailable and stateless
\* members contribute nothing.
C1_PowerRoundedSum ==
    (Processed(PowerGroup) /\ UsableMembers(PowerGroup) # {}) =>
        /\ last.summed = SumOver(UsableMembers(PowerGroup),
                                 [e \in Entities |-> InNative(states[e])])
        /\ native_value[PowerGroup] = NumValue(NearestHundredth(last.summed))

\* two members report, one is unavailable, and the sum is not a whole hundredth
C1_Witness ==
    /\ Computed(PowerGroup)
    /\ Cardinality(UsableMembers(PowerGroup)) = 2
    /\ UnavailableMembers(PowerGroup) # {}
    /\ last.summed % 10 # 0
    /\ native_value[PowerGroup].val > 0

\* C2: after every processed member state change the power group is available
\* if and only if at least one member has a state that is neither unknown nor
\* unavailable.
C2_PowerAvailability ==
    Processed(PowerGroup) =>
        (available[PowerGroup] <=> UsableMembers(PowerGroup) # {})

\* every member is unknown, unavailable or stateless and the group went
\* unavailable after having been computed
C2_Witness ==
    /\ Processed(PowerGroup)
    /\ ~available[PowerGroup]
    /\ \E e \in Members(PowerGroup) : states[e].state = STATE_UNKNOWN
    /\ \E e \in Members(PowerGroup) : states[e].state = STATE_UNAVAILABLE
    /\ native_value[PowerGroup].kind = "num"

\* ---------------------------------------------------------------------------
\* Properties of the energy group (Spec)
\* ---------------------------------------------------------------------------
\* C3: calculate_new_state returns the previous group total plus the sum, over
\* the member readings passed in, of the deltas (current minus previous in the
\* native unit) with every negative delta counted as 0.
C3_EnergyRunningTotal ==
    Computed(EnergyGroup) =>
        last.summed = PreviousTotal
            + SumOver(Participants(EnergyGroup),
                      [e \in Entities |->
                          Max0(InNative(Snapshot(e)) - PreviousOf(e))])

\* one member decreased, another increased, and the total was not zero before
C3_Witness ==
    /\ Computed(EnergyGroup)
    /\ PreviousTotal > 0
    /\ \E e \in Participants(EnergyGroup) :
            InNative(Snapshot(e)) < PreviousOf(e)
    /\ \E e \in Participants(EnergyGroup) :
            InNative(Snapshot(e)) > PreviousOf(e)

\* C4: when the energy group is recomputed twice in a row with no member
\* reading changed in between, the second recomputation finds delta 0 for
\* every member and leaves the total as the first left it.
C4_EnergyIdempotent ==
    (Processed(EnergyGroup) /\ last.again) =>
        /\ native_value[EnergyGroup] = last.value
        /\ store = last.store
        /\ \A e \in Entities : last.deltas[e] = 0
        /\ last.outcome = "computed" => last.summed = last.value.val

\* the second of two recomputations in a row, with a total above zero
C4_Witness ==
    /\ Computed(EnergyGroup)
    /\ last.again
    /\ native_value[EnergyGroup].val > 0
    /\ Cardinality(Participants(EnergyGroup)) = 2

C6_SubstituteAll ==
    (/\ Processed(EnergyGroup)
     /\ last.outcome # "raised"
     /\ UnavailableMembers(EnergyGroup) # {}
     /\ \A e \in UnavailableMembers(EnergyGroup) : last.store[e] # None) =>
        /\ available[EnergyGroup]
        /\ last.outcome = "computed"

\* C7: if a member is still unavailable after substitution (it is unavailable
\* and has no stored snapshot), the group becomes unavailable and no new total
\* is computed.
C7_FailClosed ==
    (/\ Processed(EnergyGroup)
     /\ \E e \in UnavailableMembers(EnergyGroup) : last.store[e] = None) =>
        /\ ~available[EnergyGroup]
        /\ last.outcome = "unavailable"
        /\ native_value[EnergyGroup] = last.value
        /\ store = last.store

\* one member unavailable without a snapshot while the other reports a reading
\* above its stored one, and the total stays as it was
C7_Witness ==
    /\ Processed(EnergyGroup)
    /\ \E e \in UnavailableMembers(EnergyGroup) : last.store[e] = None
    /\ \E e \in UsableMembers(EnergyGroup) :
            /\ last.store[e] # None
            /\ InNative(states[e]) > InNative(last.store[e])
    /\ last.value.kind = "num"
    /\ ~available[EnergyGroup]

\* C8: after a completed energy recomputation the store holds, for every
\* member that took part, exactly the snapshot that was passed in, also when
\* its delta was negative and skipped.
C8_StoreHoldsCurrent ==
    Computed(EnergyGroup) =>
        /\ \A e \in Participants(EnergyGroup) : store[e] = Snapshot(e)
        /\ \A e \in Entities \ Participants(EnergyGroup) :
                store[e] = last.store[e]

\* a member whose reading decreased: its delta was skipped, its snapshot stored
C8_Witness ==
    /\ Computed(EnergyGroup)
    /\ \E e \in UsableMembers(EnergyGroup) :
            /\ last.store[e] # None
            /\ last.deltas[e] < 0
            /\ store[e] = states[e]
            /\ store[e] # last.store[e]

\* C9: when async_reset returns the group total is 0, the stored snapshot of
\* every member has value zero and a reset request is in flight for every
\* member; a failing reset request leaves the snapshots and the requests of
\* the other members as they are.
C9_Reset ==
    [][/\ (last'.op = "async_reset") =>
            /\ native_value'[last'.g] = NumValue(0)
            /\ \A e \in Members(last'.g) :
                    /\ store'[e].state = "num"
                    /\ store'[e].val = 0
                    /\ reset_tasks'[e] = reset_tasks[e] + 1
       /\ (last'.op = "reset_energy" /\ last'.outcome = "failed") =>
            /\ store' = store
            /\ native_value' = native_value
            /\ \A e \in Entities \ {last'.e} : reset_tasks'[e] = reset_tasks[e]
      ]_vars

\* a reset of a group whose total and whose members' snapshots were not zero
C9_Witness ==
    /\ last.op = "async_reset"
    /\ last.value.val > 0
    /\ \A e \in Members(EnergyGroup) :
            last.store[e] # None /\ last.store[e].val > 0
    /\ \A e \in Members(EnergyGroup) : store[e] = ZeroState /\ reset_tasks[e] > 0

\* ---------------------------------------------------------------------------
\* Properties of the PreviousStateStore (SpecStore)
\* ---------------------------------------------------------------------------
\* C10: get_entity_state(id) returns exactly the state of the latest
\* set_entity_state for that id, whatever was set for other ids since, and
\* null for an id that was never set.
C10_StoreGetSet ==
    /\ last.op = "get_entity_state" => got = written[last.e]
    /\ \A e \in Entities : store[e] = written[e]

\* a get of an id that was set, while another id holds a different state
C10_Witness ==
    /\ last.op = "get_entity_state"
    /\ got # None
    /\ \E o \in StoreIds \ {last.e} : written[o] \notin {None, got}

\* ---------------------------------------------------------------------------
\* Properties of the PreviousStateStore's life (SpecPersist)
\* ---------------------------------------------------------------------------
\* the document holds exactly the entries of the map st
FullMapWritten(doc, st) ==
    /\ doc.exists
    /\ \A e \in Entities :
        IF st[e] = None THEN doc.data[e] = NoJson
        ELSE /\ doc.data[e].entity_id = e
             /\ doc.data[e].unit_of_measurement = st[e].unit
             /\ doc.data[e].state =
                    IF st[e].state = "num" THEN ToString(st[e].val)
                    ELSE st[e].state

\* C11: when the store is loaded in a new process from a document written by
\* a successful persist_states, get_entity_state(id) is the last state set
\* before that persist for every id that had been set, and null for the others.
C11_RoundTrip ==
    (last.op = "async_load" /\ last.outcome = "loaded") =>
        \A e \in Entities : get_entity_state(store, e) = saved[e]

\* a load that brings back a state with a unit for one id, while another id
\* has a different state or none
C11_Witness ==
    /\ last.op = "async_load"
    /\ last.outcome = "loaded"
    /\ \E e \in PersistIds : store[e] # None /\ store[e].unit # ""
                             /\ store[e].val > 0
    /\ \E e \in PersistIds : store[e] \in {None, ZeroState}

\* C12: a failed storage read gives a usable instance with an empty map and the
\* periodic dump set up; a failed write in persist_states changes neither the
\* in-memory map nor anything else and the handler completes.
C12_StorageFailures ==
    [][/\ (last'.op = "async_load" /\ last'.outcome = "failed") =>
            /\ \A e \in Entities : store'[e] = None
            /\ caller'[last'.e] = "done"
            /\ slot' = Instance(returned'[last'.e])
            /\ returned'[last'.e] > 0
            /\ timers' = timers + 1
            /\ stop_listeners' = stop_listeners + 1
       /\ (last'.op \in {"tick", "flush"} /\ last'.outcome = "failed") =>
            /\ store' = store
            /\ disk' = disk
            /\ slot' = slot
      ]_vars

\* a read fails although a document with entries had been saved
C12_Witness ==
    /\ last.op = "async_load"
    /\ last.outcome = "failed"
    /\ disk.exists
    /\ \E e \in PersistIds : disk.data[e] # NoJson
    /\ timers = 1
    /\ \A e \in Entities : store[e] = None

\* C13: every group sensor gets the same single instance; the storage is
\* loaded at most once and the periodic dump registered at most once per
\* process, also when calls arrive while the first is awaiting the load.
C13_Singleton ==
    /\ instances <= 1
    /\ loads <= 1
    /\ timers + cancels <= 1
    /\ stop_listeners <= 1
    /\ \A g \in Groups : caller[g] = "done" =>
            /\ returned[g] = 1
            /\ slot = Instance(1)

\* a call that had to wait for the first call's load has returned, and both
\* group sensors hold instance 1
C13_Witness ==
    /\ last = Did("async_get_instance", last.e, "resumed")
    /\ last.e \in Groups
    /\ \A g \in Groups : caller[g] = "done" /\ returned[g] = 1
    /\ loads = 1

DeclaredAliases ==
    UNION {{[manufacturer |-> lower(config.tree[i].name),
             model |-> config.tree[i].models[j].dir,
             alias |-> config.tree[i].models[j].json.aliases[k]] :
                k \in 1..Len(config.tree[i].models[j].json.aliases)} :
           <<i, j>> \in {<<i, j>> \in (1..Len(config.tree)) \X (1..3) :
                            /\ j <= Len(config.tree[i].models)
                            /\ config.tree[i].models[j].has_json
                            /\ ~is_hidden(config.tree[i].models[j].dir)}}

\* the candidates of find_model in the order they are listed
Candidates(model) ==
    <<model, replace_slash(model), lower(model), replace_slash(lower(model)),
      parenthetical(model)>>

\* the models of a manufacturer that a candidate matches: a local profile filed
\* under the candidate's key, a manifest model with that id or alias
MatchedBy(manufacturer, candidate) ==
    {index[manufacturer][i].model : i \in
        {j \in 1..Len(index[manufacturer]) :
            index[manufacturer][j].key = lower(candidate)}}
    \cup
    {manufacturer_models[manufacturer][i].id : i \in
        {j \in 1..Len(manufacturer_models[manufacturer]) :
            \/ manufacturer_models[manufacturer][j].id = candidate
            \/ \E a \in 1..Len(manufacturer_models[manufacturer][j].aliases) :
                   manufacturer_models[manufacturer][j].aliases[a] = candidate}}

\* what follows the first "/" of a model id, NoString when there is none
NamedSubProfile(model) ==
    IF \E i \in 1..Len(model) : model[i] = "/"
    THEN LET i == CHOOSE k \in 1..Len(model) :
                      model[k] = "/" /\ \A j \in 1..(k - 1) : model[j] # "/"
         IN  SubSeq(model, i + 1, Len(model))
    ELSE NoString

\* the cache key of the listing call made last
KeyOf(c) == <<c.manufacturer, device_type_of(c.entity_domain)>>

\* ---------------------------------------------------------------------------
\* Properties of the profile library (SpecLibrary, SpecListing)
\* ---------------------------------------------------------------------------
\* C15: get_profile returns null and raises nothing when find_model resolves
\* no model, when the loader chain returns no data for the resolved model, and
\* when a LibraryError is raised while resolving or loading.
C15_NullOnFailure ==
    call.op = "get_profile" =>
        /\ call.found.kind = "none" => call.result = Nothing
        /\ (call.found.kind = "value" /\ call.found.value # NoString
            /\ call.loaded.kind = "none") => call.result = Nothing
        /\ (call.loaded.kind = "raised"
            /\ call.loaded.error \in {"LibraryError", "LibraryLoadingError"}) =>
                call.result = Nothing
        /\ (call.manufacturer = <<"nobody">> /\ call.custom_directory = NoDirectory)
                => call.result = Nothing

\* a custom directory is given for a model the loaders have no data for:
\* load_model returns nothing, the LibraryError raised for it is caught
C15_Witness ==
    /\ call.op = "get_profile"
    /\ call.custom_directory # NoDirectory
    /\ call.found = Value(<<"xyz">>)
    /\ call.loaded = Nothing
    /\ call.result = Nothing

\* C16: for every alias a declared by a model m of a manufacturer,
\* get_profile(manufacturer, a) and get_profile(manufacturer, m) yield profiles
\* with the same data directory and the same calibration JSON.
C16_AliasSameProfile ==
    (lib_state = "ready" /\ call.op = "get_profile"
     /\ call.custom_directory = NoDirectory) =>
        \A d \in DeclaredAliases :
            (d.manufacturer = call.manufacturer /\ d.alias = call.model) =>
                LET canonical == get_profile(
                        Library, ModelInfo(d.manufacturer, d.model),
                        NoDirectory, call.download_ok).result
                IN  /\ canonical.kind = "value"
                    /\ call.result.kind = "value"
                    /\ call.result.value.directory = canonical.value.directory
                    /\ call.result.value.json_data = canonical.value.json_data

\* C17: for every alias in MANUFACTURER_DIRECTORY_MAPPING, in any letter case,
\* get_profile returns the profile obtained with the canonical manufacturer
\* name, its manufacturer being the canonical lower-cased one.
C17_ManufacturerAliasAnyCase ==
    (lib_state = "ready" /\ call.op = "get_profile") =>
        \A pair \in MANUFACTURER_DIRECTORY_MAPPING :
            lower(pair[1]) = lower(call.manufacturer) =>
                /\ call.result =
                       get_profile(Library, ModelInfo(pair[2], call.model),
                                   call.custom_directory,
                                   call.download_ok).result
                /\ call.result.kind = "value" =>
                       call.result.value.manufacturer = lower(pair[2])

\* C18: find_model returns a model matching the earliest candidate, in the
\* order exact id, unescaped id, lower-cased id, lower-cased unescaped id,
\* parenthetical content, that any model of the manufacturer matches.
C18_CandidateOrder ==
    (call.op = "find_model" /\ call.result.kind = "value") =>
        \E i \in 1..5 :
            /\ call.result.value \in
                   MatchedBy(call.manufacturer, Candidates(call.model)[i])
            /\ \A j \in 1..(i - 1) :
                   MatchedBy(call.manufacturer, Candidates(call.model)[j]) = {}

\* C19: the active sub-profile of the profile get_profile returns is the one
\* named after the first "/" of the model id when one is named, otherwise the
\* default the profile declares, otherwise none.
C19_SubProfile ==
    (call.op = "get_profile" /\ call.result.kind = "value") =>
        call.result.value.sub_profile =
            IF NamedSubProfile(call.model) # NoString
            THEN NamedSubProfile(call.model)
            ELSE call.result.value.json_data.sub_profile_select

\* a named sub-profile wins over the declared default
C19_Witness ==
    /\ call.op = "get_profile"
    /\ call.model = <<"LCT", "/", "night">>
    /\ call.result.kind = "value"
    /\ call.result.value.sub_profile = <<"night">>
    /\ call.result.value.json_data.sub_profile_select = <<"day">>

\* C20: after the first get_model_listing call for a key, every later call
\* for that key returns the cached list and queries the loaders no more,
\* whatever the first result was.
C20_ListingCached ==
    [][(call'.op = "get_model_listing" /\ listing_queries[KeyOf(call')] >= 1) =>
            /\ listing_queries' = listing_queries
            /\ call'.result = Value(_manufacturer_models[KeyOf(call')].models)
      ]_vars

\* ---------------------------------------------------------------------------
\* C21: ProfileLibrary.factory yields one library per running host process:
\* whatever the number of calls, and also when a call starts while another
\* one still awaits initialize(), one ProfileLibrary is constructed, its loader
\* chain is initialised once and every call returns that library.
\* ---------------------------------------------------------------------------
C21_OneLibrary ==
    (\A c \in FactoryCallers : factory_caller[c] # "raised") =>
        /\ libraries <= 1
        /\ initializations <= 1
        /\ \A c, d \in FactoryCallers :
               (factory_caller[c] = "done" /\ factory_caller[d] = "done") =>
                   factory_library[c] = factory_library[d]

\* ---------------------------------------------------------------------------
\* C22: within one manufacturer every lower-cased key of the local index (a
\* model id or an alias) is claimed by one profile only; when a second profile
\* claims a used key, by its model id or by an alias, building the index
\* raises a load-time error and no index is produced.
\* ---------------------------------------------------------------------------
\* the places of a tree that claim a key: manufacturer directory t, its model
\* directory d that is loaded, and the model id (a = 0) or the a-th alias
LoadedDirs(tree, t) ==
    {d \in 1..Len(tree[t].models) :
        /\ tree[t].models[d].has_json
        /\ tree[t].models[d].dir[1] \notin {".git", ".DS_Store"}}
ClaimPlaces(tree) ==
    UNION {UNION {{<<t, d, a>> : a \in 0..Len(tree[t].models[d].json.aliases)} :
                  d \in LoadedDirs(tree, t)} : t \in 1..Len(tree)}
ClaimedKey(tree, p) ==
    LET d == tree[p[1]].models[p[2]]
    IN  <<lower(tree[p[1]].name),
          lower(IF p[3] = 0 THEN d.dir ELSE d.json.aliases[p[3]])>>
ClaimsClash(tree) ==
    \E p, q \in ClaimPlaces(tree) :
        p # q /\ ClaimedKey(tree, p) = ClaimedKey(tree, q)

C22_KeyUniqueness ==
    /\ \A m \in ManufacturerKeys : \A i, j \in 1..Len(index[m]) :
           (index[m][i].key = index[m][j].key) => i = j
    /\ \A m \in ManufacturerKeys : \A i \in 1..Len(index[m]) :
           index[m][i].key = lower(index[m][i].key)
    /\ ClaimsClash(config.tree) =>
           /\ index = [m \in ManufacturerKeys |-> <<>>]
           /\ lib_slot = 0
           /\ \A c \in FactoryCallers : factory_caller[c] # "done"
           /\ call.op = "initialize" =>
                  call.result = Raised("LibraryLoadingError")

\* the index of a tree with a clashing key was built and raised
C22_Witness ==
    /\ ClaimsClash(config.tree)
    /\ \E c \in FactoryCallers : factory_caller[c] = "raised"
    /\ call.op = "initialize"
    /\ call.result = Raised("LibraryLoadingError")
    /\ index = [m \in ManufacturerKeys |-> <<>>]

\* ---------------------------------------------------------------------------
\* C23: a model directory whose name starts with "." and a model directory
\* without model.json appear neither in the local index nor in a model
\* listing; they raise no error and the other directories are still loaded.
\* ---------------------------------------------------------------------------
\* the names of the model directories of a tree that are to be skipped
SkippedDirs(tree) ==
    UNION {{tree[t].models[d].dir :
               d \in (1..Len(tree[t].models)) \ LoadedDirs(tree, t)} :
           t \in 1..Len(tree)}

C23_Skipping ==
    LET skipped == SkippedDirs(config.tree)
    IN  /\ \A m \in ManufacturerKeys : \A i \in 1..Len(index[m]) :
               /\ index[m][i].model \notin skipped
               /\ index[m][i].directory[3] \notin skipped
        /\ \A k \in CacheKeys : \A i \in 1..Len(_manufacturer_models[k].models) :
               _manufacturer_models[k].models[i] \notin skipped
        /\ (call.op = "get_model_listing") =>
               \A i \in 1..Len(call.result.value) :
                   call.result.value[i] \notin skipped
        /\ (skipped # {} /\ ~ClaimsClash(config.tree)) =>
               /\ \A c \in FactoryCallers : factory_caller[c] # "raised"
               /\ (lib_state = "ready") =>
                      \A t \in 1..Len(config.tree) :
                          \A d \in LoadedDirs(config.tree, t) :
                              \E i \in 1..Len(index[lower(config.tree[t].name)]) :
                                  index[lower(config.tree[t].name)][i] =
                                      Entry(lower(config.tree[t].models[d].dir),
                                            config.tree[t].models[d].dir,
                                            <<"data", config.tree[t].name,
                                              config.tree[t].models[d].dir>>,
                                            config.tree[t].models[d].json)

\* a tree with a hidden directory and one without model.json was loaded and
\* the listing of its manufacturer was asked for
C23_Witness ==
    /\ \E t \in 1..Len(config.tree) : \E d \in 1..Len(config.tree[t].models) :
           config.tree[t].models[d].dir = <<".git">>
    /\ \E t \in 1..Len(config.tree) : \E d \in 1..Len(config.tree[t].models) :
           ~config.tree[t].models[d].has_json
    /\ call.op = "get_model_listing"
    /\ call.manufacturer = <<"signify">>
    /\ \E i \in 1..Len(call.result.value) : call.result.value[i] = LCT

\* ---------------------------------------------------------------------------
\* C24: when the manifest endpoint answers initialize() with a status other
\* than success, the remote loader ends initialisation holding the contents of
\* the bundled library.json with its manufacturers and models indexed, has
\* logged one error and has raised nothing.
\* ---------------------------------------------------------------------------
C24_ManifestFallback ==
    (call.op = "initialize" /\ response.status \notin {0, 200}) =>
        /\ call.result.kind # "raised"
        /\ library_contents = Contents(TRUE, BundledManifest)
        /\ manufacturer_models = remote_initialize(BundledManifest)
        /\ logged.error = 1

\* ---------------------------------------------------------------------------
\* C25: over a sequence of load_model calls for one manufacturer/model the
\* files of the profile are downloaded on the first call only; a later call
\* finds the cache directory, downloads nothing and returns the same
\* (json_data, cache directory).
\* ---------------------------------------------------------------------------
\* the original statement: no model sees a second download
C25_DownloadOnce == \A k \in RemoteModels : downloads[k] <= 1

\* the step is a load_model call for model k of the manifest
LoadModelStep(k) ==
    /\ load_calls'[k] = load_calls[k] + 1
    /\ call'.op = "load_model"

\* amended: a download is made only while the cache directory is missing; a
\* call that finds the directory downloads nothing and leaves it as it is,
\* and once a call has returned a result every later call returns the same
C25_DownloadWhileMissing ==
    [][\A k \in RemoteModels :
          LoadModelStep(k) =>
              /\ (storage_path(k[1], k[2]) \in storage) =>
                     /\ downloads'[k] = downloads[k]
                     /\ storage' = storage
              /\ (storage_path(k[1], k[2]) \notin storage) =>
                     downloads'[k] = downloads[k] + 1
              /\ (first_loaded[k].kind = "value") =>
                     call'.result = first_loaded[k]]_vars

\* a model was loaded a second time and the call returned what the first did
C25_Witness ==
    \E k \in RemoteModels :
        /\ load_calls[k] >= 2
        /\ downloads[k] = 1
        /\ call.op = "load_model" /\ <<call.manufacturer, call.model>> = k
        /\ call.result.kind = "value"
        /\ call.result = first_loaded[k]

\* ---------------------------------------------------------------------------
\* C26: a download that fails or is interrupted raises a download error and
\* leaves no cache directory that a later load_model takes for complete.
\* ---------------------------------------------------------------------------
\* every file of the profile is in its cache directory
CompleteCache(k) ==
    \A file \in {"model.json", "hs.csv.gz"} :
        Append(storage_path(k[1], k[2]), file) \in storage

C26_FailedDownload ==
    \A k \in RemoteModels :
        /\ (storage_path(k[1], k[2]) \in storage) => CompleteCache(k)
        /\ (call.op = "load_model" /\ <<call.manufacturer, call.model>> = k) =>
               /\ (call.result.kind = "value") => CompleteCache(k)
               /\ (call.result.kind = "raised") =>
                      call.result.error = "ProfileDownloadError"

\* ---------------------------------------------------------------------------
\* C27: when create_sensors builds the sensors of several configured entities
\* and creating the sensor of one of them fails with a setup or configuration
\* error, only the sensors of that entity are absent: those of every other
\* entity of the batch are created and returned.
\* ---------------------------------------------------------------------------
\* the sensors a sequence holds for a source entity
SensorsOf(sensors, source) ==
    {sensors[i] : i \in {j \in 1..Len(sensors) : sensors[j].source = source}}

\* every failure of the batch is a setup or configuration error of an entity
OnlySetupErrors(platform_config) ==
    /\ ~platform_config.area_missing
    /\ platform_config.entities # <<>>
    /\ \A i \in 1..Len(platform_config.entities) :
           platform_config.entities[i].error \in {"", "StrategyConfigurationError"}

C27_BatchIsolation ==
    (setup.op = "async_setup_platform" /\ OnlySetupErrors(setup.config)) =>
        /\ setup.result.kind = "value"
        /\ \A i \in 1..Len(setup.config.entities) :
               LET e == setup.config.entities[i]
                   sensors == SensorsOf(setup.result.value, e.entity_id)
               IN  /\ (e.error # "") => sensors = {}
                   /\ (e.error = "" /\ e.entity_id \notin setup.before) =>
                          /\ sensors =
                                 {Sensor(e.entity_id, "power")} \cup
                                 (IF setup.config.create_energy_sensor
                                  THEN {Sensor(e.entity_id, "energy")} ELSE {})
                          /\ sensors \subseteq
                                 SensorsOf(added_entities, e.entity_id)

\* a batch of three entities whose second one failed with a configuration
\* error, the first and the third being created
C27_Witness ==
    /\ setup.op = "async_setup_platform"
    /\ Len(setup.config.entities) = 3
    /\ setup.config.entities[1].error = ""
    /\ setup.config.entities[2].error = "StrategyConfigurationError"
    /\ setup.config.entities[3].error = ""
    /\ setup.before = {}
    /\ setup.result.kind = "value"
    /\ SensorsOf(setup.result.value, setup.config.entities[3].entity_id) # {}

\* ---------------------------------------------------------------------------
\* C28: FixedStrategy.calculate with a per-state table returns the entry whose
\* key is the raw state string; otherwise the first "attribute|value" entry,
\* in declaration order, whose attribute of the state equals value; otherwise
\* the flat power.
\* ---------------------------------------------------------------------------
\* the entries of a table that name an attribute of the state and its value
AttributeMatches(table, entity_state) ==
    {i \in 1..Len(table) :
        /\ Len(table[i].key) = 2
        /\ table[i].key[2] =
               (IF table[i].key[1] = "source" /\ entity_state.source # ""
                THEN entity_state.source ELSE "None")}

\* what the lookup order gives: Nothing when no flat power is configured
LookupOrder(strategy, entity_state) ==
    LET table == strategy.per_state_power.value
        exact == {i \in 1..Len(table) : table[i].key = entity_state.state}
        matches == AttributeMatches(table, entity_state)
    IN  IF exact # {} THEN Value(table[CHOOSE i \in exact : TRUE].power)
        ELSE IF matches # {}
        THEN Value(table[CHOOSE i \in matches : \A j \in matches : i <= j].power)
        ELSE strategy.power

C28_LookupOrder ==
    (calc.op = "fixed" /\ calc.strategy.per_state_power.kind = "value") =>
        calc.result = LookupOrder(calc.strategy, calc.entity_state)

\* ---------------------------------------------------------------------------
\* C29: FixedStrategy.calculate returns null only if neither a flat power nor
\* a per-state table is configured; whenever one of them is configured the
\* result is a number, for every state.
\* ---------------------------------------------------------------------------
C29_NullOnlyUnconfigured ==
    (calc.op = "fixed") =>
        IF calc.strategy.power.kind = "none"
           /\ calc.strategy.per_state_power.kind = "none"
        THEN calc.result = Nothing
        ELSE calc.result.kind = "value"

\* ---------------------------------------------------------------------------
\* C30: CompositeStrategy.calculate goes through its members in declared
\* order and delegates to the first member whose condition holds for the state
\* or that has no condition: the result is that member's result, no later
\* member is calculated, and the result is null when no member matches.
\* ---------------------------------------------------------------------------
\* the members that match the state
Matching(strategies, entity_state) ==
    {i \in 1..Len(strategies) :
        \/ strategies[i].condition = ""
        \/ strategies[i].condition = "playing"
               /\ entity_state.state = <<"playing">>
        \/ strategies[i].condition = "tv" /\ entity_state.source = "TV"}

C30_FirstMatchingMember ==
    (calc.op = "composite") =>
        LET matching == Matching(calc.strategy, calc.entity_state)
            first == CHOOSE i \in matching : \A j \in matching : i <= j
        IN  IF matching = {}
            THEN calc.result = Nothing /\ calc.delegated = <<>>
            ELSE /\ calc.delegated = <<first>>
                 /\ calc.result = fixed_calculate(calc.strategy[first].strategy,
                                                  calc.entity_state)

\* the first member did not match, the second and the third did, and the
\* second gave the result
C30_Witness ==
    /\ calc.op = "composite"
    /\ Len(calc.strategy) = 3
    /\ Matching(calc.strategy, calc.entity_state) = {2, 3}
    /\ calc.delegated = <<2>>
    /\ calc.result.kind = "value"
    /\ calc.strategy[3].strategy # calc.strategy[2].strategy

\* ---------------------------------------------------------------------------
\* C31: when _recalculate has run, the value of the StandbyPowerSensor is the
\* sum of the standby power of the sensors registered at that moment, rounded
\* to two digits, and it is the unknown value, not 0, when none is registered.
\* ---------------------------------------------------------------------------
C31_StandbySum ==
    recalculated # Nothing =>
        LET registry == recalculated.value
        IN  standby_value =
                IF DOMAIN registry = {} THEN UnknownValue
                ELSE NumValue(NearestHundredth(
                        SumOver(DOMAIN registry, registry)))

\* the last sensor left standby and the aggregator was signalled
C31_Witness ==
    /\ recalculated # Nothing
    /\ DOMAIN recalculated.value = {}
    /\ standby_value = UnknownValue

\* ---------------------------------------------------------------------------
\* C32: two energy groups that share a member are accounted independently:
\* when the reading of a member is above the reading a group counted last, by
\* d, the recomputation of that group adds d to its total, whether or not the
\* callback of the other group has run before.
\* ---------------------------------------------------------------------------
C32_SharedMember ==
    [][\A g \in EnergyGroups :
          (last'.op = "on_state_change" /\ last'.g = g
           /\ last'.outcome = "computed") =>
              \A e \in Members(g) :
                  (/\ states[e].state = "num"
                   /\ account[g].seen[e].kind = "value"
                   /\ InNative(states[e]) > account[g].seen[e].value) =>
                      /\ last'.deltas[e] =
                             InNative(states[e]) - account[g].seen[e].value
                      /\ last'.summed >= last'.value.val + last'.deltas[e]
      ]_vars

\* ---------------------------------------------------------------------------
\* C33: while all members stay available and no reading decreases, the total
\* of the energy group equals the total it started from plus the sum over the
\* members of (latest reading - first observed reading), to within one unit
\* of the rounding precision. Stated for a group that starts from a restored
\* total, so that a first observation adds nothing.
\* ---------------------------------------------------------------------------
Gained(a) ==
    SumOver({e \in DOMAIN a.first : a.first[e].kind = "value"},
            [e \in DOMAIN a.first |-> a.seen[e].value - a.first[e].value])

C33_Conservation ==
    (/\ account[EnergyGroup].start.kind = "value"
     /\ account[EnergyGroup].start.value > 0
     /\ native_value[EnergyGroup].kind = "num") =>
        Abs(native_value[EnergyGroup].val
            - (account[EnergyGroup].start.value + Gained(account[EnergyGroup])))
            <= RoundQuantum

\* ---------------------------------------------------------------------------
\* C38: whatever the order and the interleaving of the create_individual_sensors
\* calls of the YAML platform, the config entries and the discovery manager,
\* at most one power sensor is created for a source entity.
\* ---------------------------------------------------------------------------
C38_OnePerSource ==
    \A source \in IndividualSources : sensors_created[source] <= 1

\* ---------------------------------------------------------------------------
\* C34: after async_reset the group total counts only energy consumed after
\* the reset. Stated for the callback that runs next after the reset, when no
\* member reading has changed since and no member has accumulated anything:
\* the total it computes is 0.
\* ---------------------------------------------------------------------------
C34_CountsAfterReset ==
    [][(/\ last.op = "async_reset"
        /\ last'.op = "on_state_change"
        /\ last'.g = last.g
        /\ last'.outcome = "computed") =>
            native_value'[last'.g].val = 0
      ]_vars

\* ---------------------------------------------------------------------------
\* C35: between two resets the total of the energy group never decreases,
\* whatever the members do: increase, decrease, go unavailable, come back.
\* ---------------------------------------------------------------------------
C35_Monotone ==
    [][last'.op # "async_reset" =>
            native_value'[EnergyGroup].val >= native_value[EnergyGroup].val
      ]_vars

\* a recomputation in which one member had decreased and an unavailable one
\* was replaced by its snapshot, and the total stayed where it was
C35_Witness ==
    /\ Computed(EnergyGroup)
    /\ last.value.kind = "num"
    /\ last.value.val > 0
    /\ \E e \in Members(EnergyGroup) : last.deltas[e] < 0
    /\ Substituted(EnergyGroup) # {}
    /\ native_value[EnergyGroup].val = last.value.val

\* ---------------------------------------------------------------------------
\* C37: a callback that makes the energy group unavailable, and a callback
\* delivered while the host is not running, leave the total of the group and
\* every entry of the store as they were; the recomputation that makes the
\* group available again starts from that total.
\* ---------------------------------------------------------------------------
C37_FrameWhenIdle ==
    [][(last'.op = "on_state_change" /\ last'.g = EnergyGroup) =>
          /\ (hass_state # "running" \/ ~available'[EnergyGroup]) =>
                /\ native_value'[EnergyGroup] = native_value[EnergyGroup]
                /\ store' = store
          /\ (last'.outcome = "computed" /\ ~available[EnergyGroup]) =>
                /\ available'[EnergyGroup]
                /\ native_value'[EnergyGroup].val =
                       NearestHundredth(
                           native_value[EnergyGroup].val
                           + SumOver(Members(EnergyGroup),
                                     [e \in Entities |-> Max0(last'.deltas[e])]))
      ]_vars

\* the group went unavailable while it had a total and the store had entries
C37_Witness ==
    /\ Processed(EnergyGroup)
    /\ last.outcome = "unavailable"
    /\ ~available[EnergyGroup]
    /\ native_value[EnergyGroup].kind = "num"
    /\ native_value[EnergyGroup].val > 0
    /\ \A e \in Members(EnergyGroup) : store[e] # None
    /\ states["e1"].state = STATE_UNKNOWN
    /\ states["e2"].state = STATE_UNKNOWN

\* ---------------------------------------------------------------------------
\* The energy group over restarts of the host (SpecRestart)
\* ---------------------------------------------------------------------------
\* what async_get_last_state hands back to the energy group
RestartValues == {NoValue, StrValue(10)}

RestartReadings(e) ==
    {Unavailable(UnitOf(e))} \cup {Num(v, UnitOf(e)) : v \in ValsOf(e)}

\* async_added_to_hass of the energy group: the store has been awaited before
\* the group subscribes to its members
RestartAdded ==
    /\ caller[EnergyGroup] = "done"
    /\ \E v \in RestartValues : AddedToHass(EnergyGroup, v)

RestartMemberChange ==
    \E e \in Range(GroupEntities(EnergyGroup)) : \E r \in RestartReadings(e) :
        MemberChange(e, r)

NextRestart ==
    \/ HassStart
    \/ GetInstanceCall(EnergyGroup)
    \/ \E read_ok \in BOOLEAN : LoadDone(EnergyGroup, read_ok)
    \/ RestartAdded
    \/ RestartMemberChange
    \/ OnStateChange(EnergyGroup)
    \/ HassStop
    \/ \E write_ok \in BOOLEAN : StopFlush(write_ok)
    \/ NewProcess

SpecRestart == Init /\ [][NextRestart]_vars

\* the reading an entry of the persisted document stands for, in Wh
DocumentReading(j) ==
    LET v == CHOOSE n \in ParsableVals : ToString(n) = j.state
    IN  IF j.unit_of_measurement = "kWh" THEN 1000 * v ELSE v

\* what member e has accumulated beyond its persisted snapshot
CarryOver(e) ==
    IF states[e].state = "num" /\ disk.data[e] # NoJson
    THEN Max0(InNative(states[e]) - DocumentReading(disk.data[e]))
    ELSE 0

\* ---------------------------------------------------------------------------
\* C36: when the energy group has restored its last total and the store holds
\* what the document held at start-up, the first recomputation gives the
\* restored total plus, for every member reporting a reading, the amount by
\* which the reading exceeds the member's persisted snapshot (nothing when it
\* is below), rounded to two decimals.
\* ---------------------------------------------------------------------------
C36_RestartCarryOver ==
    [][(/\ last'.op = "on_state_change"
        /\ last'.g = EnergyGroup
        /\ last'.outcome = "computed"
        /\ native_value[EnergyGroup].kind = "str"
        /\ disk.exists
        /\ store = loaded_states(disk, TRUE)) =>
            native_value'[EnergyGroup] =
                NumValue(NearestHundredth(
                    native_value[EnergyGroup].val
                    + SumOver(Members(EnergyGroup),
                              [e \in Entities |-> CarryOver(e)])))
      ]_vars

\* the first recomputation after a restart found a snapshot read from the
\* document below the reading of its member and added the difference
C36_Witness ==
    /\ Computed(EnergyGroup)
    /\ last.value.kind = "str"
    /\ \E e \in UsableMembers(EnergyGroup) :
            /\ last.store[e] # None
            /\ last.deltas[e] > 0
            /\ last.deltas[e] = CarryOver(e)
    /\ \E e \in Members(EnergyGroup) :
            /\ last.store[e] # None
            /\ last.store[e].unit = "kWh"
    /\ native_value[EnergyGroup].val > last.value.val

\* ---------------------------------------------------------------------------
\* Config entries: groups, their member sensors and their sub-groups
\* ---------------------------------------------------------------------------
\* recursion depth at which the interpreter raises RecursionError
MaxRecursionDepth == 3

nonEntryVars == <<sensorVars, store, last, got, written, lifeVars, libVars,
                  platformVars, calc, standbyVars, account, individualVars>>

EntryCall(op, entry, device_class, result) ==
    [op |-> op, entry |-> entry, device_class |-> device_class,
     result |-> result]

\* hass.config_entries.async_get_entry(id) is not None
HasEntry(entries, id) == id \in DOMAIN entries /\ entries[id].exists

\* the values CONF_GROUP and CONF_SUB_GROUPS are given by the config flow
GroupChoices == {"absent"} \cup GroupEntryIds
SubGroupChoices(g) ==
    {<<>>, <<MissingEntryId>>} \cup {<<h>> : h \in GroupEntryIds \ {g}}

\* the user adds a virtual power entry
CreateSensorEntry(id, group) ==
    /\ ~config_entries[id].exists
    /\ config_entries' = [config_entries EXCEPT ![id] = SensorEntry(group)]
    /\ entry_call' = EntryCall("create", id, "", Nothing)
    /\ UNCHANGED nonEntryVars

\* the user adds a group entry
CreateGroupEntry(id) ==
    /\ ~config_entries[id].exists
    /\ config_entries' = [config_entries EXCEPT ![id] = GroupEntry(<<>>)]
    /\ entry_call' = EntryCall("create", id, "", Nothing)
    /\ UNCHANGED nonEntryVars

\* the user chooses the sub-groups of a group entry
ConfigureSubGroups(id, sub_groups) ==
    /\ config_entries[id].exists
    /\ config_entries[id].sub_groups # sub_groups
    /\ config_entries' = [config_entries EXCEPT ![id].sub_groups = sub_groups]
    /\ entry_call' = EntryCall("configure", id, "", Nothing)
    /\ UNCHANGED nonEntryVars

\* variant: the entry id is not put into the set
set_add_nothing(members, entry_id) == members

\* member_sensors.add(config_entry.entry_id)
set_add(members, entry_id) == members \cup {entry_id}

\* list(member_sensors): the elements of the set in the order the set yields
\* them, which is any order
list_of(members) ==
    {l \in [1..Cardinality(members) -> members] : Range(l) = members}

add_to_associated_group(id) ==
    /\ config_entries[id].exists
    /\ LET data == config_entries[id]
       IN  IF data.sensor_type # "virtual_power" \/ data.group = "absent"
           THEN /\ entry_call' = EntryCall("add_to_associated_group", id, "",
                                           Nothing)
                /\ UNCHANGED config_entries
           ELSE IF ~HasEntry(config_entries, data.group)
           THEN /\ entry_call' = EntryCall("add_to_associated_group", id, "",
                                           Nothing)
                /\ UNCHANGED config_entries
           ELSE LET member_sensors ==
                        set_add(Range(config_entries[data.group].member_sensors),
                                id)
                IN  /\ \E l \in list_of(member_sensors) :
                            config_entries' =
                                [config_entries EXCEPT
                                    ![data.group].member_sensors = l]
                    /\ entry_call' = EntryCall("add_to_associated_group", id,
                                               "", Value(data.group))
    /\ UNCHANGED nonEntryVars

\* variant: no group entry is updated
remove_power_sensor_from_no_group(entries, entry_id) == entries

\* every group entry whose member list holds the id has it removed
remove_power_sensor_from_associated_groups(entries, entry_id) ==
    [id \in DOMAIN entries |->
        IF /\ entries[id].exists
           /\ entries[id].sensor_type = "group"
           /\ entry_id \in Range(entries[id].member_sensors)
        THEN [entries[id] EXCEPT !.member_sensors = ListRemove(@, entry_id)]
        ELSE entries[id]]

\* every virtual power entry that names the group has CONF_GROUP set to None
remove_group_from_power_sensor_entry(entries, entry_id) ==
    [id \in DOMAIN entries |->
        IF /\ entries[id].exists
           /\ entries[id].sensor_type = "virtual_power"
           /\ entries[id].group = entry_id
        THEN [entries[id] EXCEPT !.group = "none"]
        ELSE entries[id]]

\* the user removes a virtual power entry: the groups it belongs to are updated
RemoveSensorEntry(id) ==
    /\ config_entries[id].exists
    /\ config_entries[id].sensor_type = "virtual_power"
    /\ config_entries' =
           [remove_power_sensor_from_associated_groups(config_entries, id)
               EXCEPT ![id] = NoEntry]
    /\ entry_call' = EntryCall("remove_power_sensor_from_associated_groups",
                               id, "", Nothing)
    /\ UNCHANGED nonEntryVars

\* the user removes a group entry: the sensors that name it are updated
RemoveGroupEntry(id) ==
    /\ config_entries[id].exists
    /\ config_entries[id].sensor_type = "group"
    /\ config_entries' =
           [remove_group_from_power_sensor_entry(config_entries, id)
               EXCEPT ![id] = NoEntry]
    /\ entry_call' = EntryCall("remove_group_from_power_sensor_entry", id, "",
                               Nothing)
    /\ UNCHANGED nonEntryVars

\* the entry of s1 carries its entity ids (ENTRY_DATA_POWER_ENTITY and
\* ENTRY_DATA_ENERGY_ENTITY); the entry of s2 was made before they were saved
has_entity_key(member_entry_id) == member_entry_id = "s1"
entry_entity(member_entry_id, device_class) == <<member_entry_id, device_class>>
\* the entities of the entity registry that belong to the entry, sorted
sorted_entities(member_entry_id, device_class) ==
    << <<member_entry_id, device_class>> >>
\* CONF_GROUP_POWER_ENTITIES / CONF_GROUP_ENERGY_ENTITIES of a group entry
additional_entities(entry, device_class) ==
    IF entry = "g1" THEN << <<"extra", device_class>> >> ELSE <<>>

\* the loop over member_entry_ids; member_entry.data of a missing entry
\* raises AttributeError
RECURSIVE MemberLoop(_, _, _, _)
MemberLoop(entries, member_entry_ids, device_class, resolved_ids) ==
    IF member_entry_ids = <<>> THEN Value(resolved_ids)
    ELSE IF ~HasEntry(entries, Head(member_entry_ids))
    THEN Raised("AttributeError")
    ELSE MemberLoop(entries, Tail(member_entry_ids), device_class,
            Append(resolved_ids,
                   IF has_entity_key(Head(member_entry_ids))
                   THEN entry_entity(Head(member_entry_ids), device_class)
                   ELSE Head(sorted_entities(Head(member_entry_ids),
                                             device_class))))

\* resolved_ids is the list every level appends to; depth counts the frames
RECURSIVE resolve_entity_ids_recursively(_, _, _, _, _)
RECURSIVE SubgroupLoop(_, _, _, _, _)
SubgroupLoop(entries, subgroups, device_class, resolved_ids, depth) ==
    IF subgroups = <<>> THEN Value(resolved_ids)
    ELSE IF ~HasEntry(entries, Head(subgroups))
    THEN SubgroupLoop(entries, Tail(subgroups), device_class, resolved_ids,
                      depth)
    ELSE LET sub == resolve_entity_ids_recursively(
                        entries, Head(subgroups), device_class, resolved_ids,
                        depth + 1)
         IN  IF sub.kind = "raised" THEN sub
             ELSE SubgroupLoop(entries, Tail(subgroups), device_class,
                               sub.value, depth)

resolve_entity_ids_recursively(entries, entry, device_class, resolved_ids, depth) ==
    IF depth > MaxRecursionDepth THEN Raised("RecursionError")
    ELSE LET members == MemberLoop(entries, entries[entry].member_sensors,
                                   device_class, resolved_ids)
         IN  IF members.kind = "raised" THEN members
             ELSE LET ids == members.value
                                \o additional_entities(entry, device_class)
                  IN  IF entries[entry].sub_groups = <<>> THEN Value(ids)
                      ELSE SubgroupLoop(entries, entries[entry].sub_groups,
                                        device_class, ids, depth)

\* the entities of a group entry are resolved
Resolve(id, device_class) ==
    /\ config_entries[id].exists
    /\ config_entries[id].sensor_type = "group"
    /\ entry_call' =
           EntryCall("resolve_entity_ids_recursively", id, device_class,
                     resolve_entity_ids_recursively(config_entries, id,
                                                    device_class, <<>>, 0))
    /\ UNCHANGED config_entries
    /\ UNCHANGED nonEntryVars

\* "await" applied to the list a plain function returned raises TypeError
await_list(result) ==
    IF result.kind = "raised" THEN result ELSE Raised("TypeError")

\* async_get_config_entry_diagnostics: for a group entry it awaits the
\* resolution for the power class
Diagnostics(id) ==
    /\ config_entries[id].exists
    /\ entry_call' =
           EntryCall("async_get_config_entry_diagnostics", id, "power",
                     IF config_entries[id].sensor_type = "group"
                     THEN await_list(resolve_entity_ids_recursively(
                                         config_entries, id, "power", <<>>, 0))
                     ELSE Nothing)
    /\ UNCHANGED config_entries
    /\ UNCHANGED nonEntryVars

NextEntries ==
    \/ \E id \in SensorEntryIds : \E group \in GroupChoices :
            CreateSensorEntry(id, group)
    \/ \E id \in GroupEntryIds : CreateGroupEntry(id)
    \/ \E id \in GroupEntryIds : \E sub_groups \in SubGroupChoices(id) :
            ConfigureSubGroups(id, sub_groups)
    \/ \E id \in EntryIds : add_to_associated_group(id)
    \/ \E id \in SensorEntryIds : RemoveSensorEntry(id)
    \/ \E id \in GroupEntryIds : RemoveGroupEntry(id)
    \/ \E id \in GroupEntryIds : \E device_class \in SensorDeviceClasses :
            Resolve(id, device_class)
    \/ \E id \in EntryIds : Diagnostics(id)

SpecEntries == Init /\ [][NextEntries]_vars

\* how often x occurs in the list l
RECURSIVE Occurrences(_, _)
Occurrences(l, x) ==
    IF l = <<>> THEN 0
    ELSE (IF Head(l) = x THEN 1 ELSE 0) + Occurrences(Tail(l), x)

\* add_to_associated_group has just put the entry into its group, or found it
AddedToGroup ==
    /\ entry_call'.op = "add_to_associated_group"
    /\ entry_call'.result.kind = "value"

\* what holds of the member lists after every step
MembershipStep ==
    /\ AddedToGroup =>
          LET g == entry_call'.result.value
          IN  /\ Occurrences(config_entries'[g].member_sensors,
                             entry_call'.entry) = 1
              /\ Range(config_entries'[g].member_sensors) =
                    Range(config_entries[g].member_sensors)
                        \cup {entry_call'.entry}
              /\ Len(config_entries'[g].member_sensors) =
                    Cardinality(Range(config_entries'[g].member_sensors))
              /\ \A id \in EntryIds \ {g} :
                    config_entries'[id] = config_entries[id]
    /\ entry_call'.op = "remove_power_sensor_from_associated_groups" =>
          \A g \in GroupEntryIds :
              entry_call'.entry \notin Range(config_entries'[g].member_sensors)
    /\ \A g \in GroupEntryIds :
          \A id \in Range(config_entries'[g].member_sensors) :
              HasEntry(config_entries', id)

\* C39 as stated: the member lists are consistent, and adding an entry that is
\* already in the member list of its group changes nothing
C39_AddAgainChangesNothing ==
    [][/\ MembershipStep
       /\ (/\ AddedToGroup
           /\ entry_call'.entry \in
                 Range(config_entries[entry_call'.result.value].member_sensors))
              => config_entries' = config_entries
      ]_vars

\* ---------------------------------------------------------------------------
\* C39: after add_to_associated_group the member list of the group holds the
\* entry id exactly once, holds no id twice and holds the ids it held before
\* (adding again leaves the members as they are; their order in the list may
\* change); after remove_power_sensor_from_associated_groups no member list
\* holds the removed id; every id in a member list is the id of an entry.
\* ---------------------------------------------------------------------------
C39_MembershipConsistent == [][MembershipStep]_vars

\* an entry was added to a group that already had another member
C39_Witness ==
    /\ entry_call.op = "add_to_associated_group"
    /\ entry_call.result.kind = "value"
    /\ Len(config_entries[entry_call.result.value].member_sensors) = 2
    /\ \E g \in GroupEntryIds :
          /\ g # entry_call.result.value
          /\ config_entries[g].exists

\* the group entries reachable from a set of group entries by sub-group
\* references to entries that exist
RECURSIVE ReachableGroups(_)
ReachableGroups(S) ==
    LET T == S \cup {h \in GroupEntryIds :
                        /\ HasEntry(config_entries, h)
                        /\ \E g \in S : h \in Range(config_entries[g].sub_groups)}
    IN  IF T = S THEN S ELSE ReachableGroups(T)

\* the entities a group entry names itself
OwnEntities(g, device_class) ==
    {<<id, device_class>> : id \in Range(config_entries[g].member_sensors)}
        \cup Range(additional_entities(g, device_class))

\* ---------------------------------------------------------------------------
\* C40: resolve_entity_ids_recursively returns, for every configuration of
\* group entries, the entities of the group and of every group reachable from
\* it through sub-group references.
\* ---------------------------------------------------------------------------
C40_ResolveReturns ==
    entry_call.op = "resolve_entity_ids_recursively" =>
        /\ entry_call.result.kind = "value"
        /\ Range(entry_call.result.value) =
              UNION {OwnEntities(g, entry_call.device_class) :
                        g \in ReachableGroups({entry_call.entry})}

====
